---- MODULE Spec2Model ----
(***************************************************************************)
(* A model of the sticker-pack template generator (auto_processor.py):     *)
(* FolderScanner, ImageProcessor, PackageManager and AutoProcessor, and of *)
(* the tools around it: the HTTP server, the browser batch driver and the  *)
(* git watcher.                                                            *)
(*                                                                         *)
(* Text is modelled as a sequence of one-character strings.  The mid-dot   *)
(* U+00B7 is written "middot"; the five characters of the fixed collection *)
(* label are written as five tokens that no folder name contains.          *)
(*                                                                         *)
(* Specifications:                                                         *)
(*   NameSpec  FolderScanner._parse_folder_name on bounded folder names    *)
(*   GridSpec  ImageProcessor.generate_template1 / generate_template_grid  *)
(*   LoadSpec  the same two on folders with undecodable image files        *)
(*   Spec      AutoProcessor.run: validate, scan, confirm, process, report *)
(*   E2ESpec   the same run on the folder of test_single.py's walk-through *)
(*   ScanSpec  FolderScanner.scan under every enumeration order of a tree  *)
(*   ColorSpec ImageProcessor.extract_dominant_color                       *)
(*   GradientSpec  ImageProcessor.create_gradient_background               *)
(*   GridFairSpec  GridSpec with the started calls running on              *)
(*   ServerSpec    server.py: set_collection_folder, set_current_folder    *)
(*   BatchSpec     auto_batch.py, auto_batch_v2.py: process_collection     *)
(*   SyncSpec      git-auto-sync.py: GitAutoSync.watch                     *)
(***************************************************************************)
EXTENDS Integers, Sequences, FiniteSets, TLC

VARIABLES
    name,          \* NameSpec: the folder name handed to _parse_folder_name
    parsed,        \* NameSpec: what _parse_folder_name computed, <<>> before
    canvas_size,   \* GridSpec: config["canvas_size"], <<width, height>>
    folder,        \* GridSpec: the FolderInfo being rendered
    gpc,           \* GridSpec: "idle", or "pad" inside generate_template_grid
    start_idx,     \* GridSpec: generate_template_grid's start_idx
    grid_images,   \* GridSpec: generate_template_grid's local list
    hero,          \* GridSpec: what the last generate_template1 drew, or <<>>
    grid,          \* GridSpec: what the last generate_template_grid drew
    unreadable,    \* GridSpec: the images whose files cannot be decoded
    rendered,      \* GridSpec: the image sequences the grids so far placed
    config,        \* Spec: AutoProcessor.config, as loaded at construction
    rootExists,    \* Spec: whether the collection folder exists on disk
    disk,          \* Spec: the entries of the collection folder
    pc,            \* Spec: where AutoProcessor.run stands
    runResult,     \* Spec: "none", or how run ended: "True", "False", "raised"
    called,        \* Spec: the methods run has called so far
    response,      \* Spec: the answer typed at the confirmation prompt
    folders,       \* Spec: AutoProcessor.folders
    folder_idx,    \* Spec: how many folders process_with_pil has handled
    results,       \* Spec: AutoProcessor.results
    outputs,       \* Spec: the template files written under output_folder
    packCalls,     \* Spec: the calls of PackageManager.package_folder
    all_packages,  \* Spec: process_with_pil's all_packages
    master,        \* Spec: the master package, or <<>>
    report,        \* Spec: the saved processing report, or <<>>
    collection,    \* ScanSpec: the entries of the scanned collection folder
    scan_min,      \* ScanSpec: FolderScanner.min_images
    listing,       \* ScanSpec: whether the last scan was enumerated in order
    scans,         \* ScanSpec: what each scan so far returned
    reordered,     \* ScanSpec: whether two scans used different orders
    image,         \* ColorSpec: the file handed to extract_dominant_color
    theme_color,   \* ColorSpec: what extract_dominant_color did, or <<>>
    gradient,      \* ColorSpec: the last create_gradient_background, or <<>>
    state,         \* ServerSpec: the fields of server.state
    answer,        \* ServerSpec: the last call of a setter and what it returned
    bpc,           \* BatchSpec: where process_collection stands
    server,        \* BatchSpec: the HTTP server: "none", "serving", "shutdown"
    driver,        \* BatchSpec: the browser: "none", "running", "quit"
    batch_folders, \* BatchSpec: how many subfolders the collection holds
    batch_index,   \* BatchSpec: how many folders the loop has handled
    batch_results, \* BatchSpec: process_collection's results
    batch_exit,    \* BatchSpec: "none", or "True", "False", "raised"
    debounce_seconds, \* SyncSpec: config["debounce_seconds"]
    auto_commit,   \* SyncSpec: config["auto_commit"]
    now,           \* SyncSpec: the clock, in seconds
    has_changes,   \* SyncSpec: whether git status reports changes
    last_change,   \* SyncSpec: when the last change of a file arrived
    wpc,           \* SyncSpec: "watching", or how watch ended
    last_check,    \* SyncSpec: watch's last_check
    pending_changes, \* SyncSpec: watch's pending_changes
    commits        \* SyncSpec: the commits made so far

nameVars == <<name, parsed>>

gridVars == <<canvas_size, folder, gpc, start_idx, grid_images, hero, grid,
              unreadable, rendered>>

runVars == <<config, rootExists, disk, pc, runResult, called, response,
             folders, folder_idx, results, outputs, packCalls, all_packages, master,
             report>>

scanVars == <<collection, scan_min, listing, scans, reordered>>

colorVars == <<image, theme_color, gradient>>

serverVars == <<state, answer>>

batchVars == <<bpc, server, driver, batch_folders, batch_index, batch_results,
               batch_exit>>

syncVars == <<debounce_seconds, auto_commit, now, has_changes, last_change,
              wpc, last_check, pending_changes, commits>>

\* the variables of the processor, and those of the tools around it
coreVars == <<nameVars, gridVars, runVars, scanVars, colorVars>>

toolVars == <<serverVars, batchVars, syncVars>>

vars == <<name, parsed, canvas_size, folder, gpc, start_idx, grid_images,
          hero, grid, unreadable, rendered, config, rootExists, disk, pc, runResult, called,
          response, folders, folder_idx, results, outputs, packCalls,
          all_packages, master, report, collection, scan_min, listing, scans,
          reordered, image, theme_color, gradient, state, answer,
          bpc, server, driver, batch_folders, batch_index, batch_results,
          batch_exit, debounce_seconds, auto_commit, now, has_changes,
          last_change, wpc, last_check, pending_changes, commits>>

----------------------------------------------------------------------------
(* Bounds *)

MaxNameLen == 5

\* the most images a folder of GridSpec holds
MaxImages == 31

\* the most qualifying images a subfolder of Spec holds
MaxDirImages == 1

\* the largest configured min_images of Spec
MaxMinImages == 2

----------------------------------------------------------------------------
(* Characters and strings *)

MIDDOT == "middot"
PIPE == "|"

\* the character class \d of the ordinal regex
Digits == {"0", "1", "2", "3", "4", "5", "6", "7", "8", "9"}

\* the character class [\.\-_\s] of the ordinal regex
OrdinalSeparators == {".", "-", "_", " "}

Whitespace == {" "}

Characters ==
    <<" ", "-", ".", "0", "1", "2", "3", "4", "5", "6", "7", "8", "9", "A",
      "B", "C", "D", "E", "F", "G", "H", "I", "J", "K", "L", "M", "N", "O",
      "P", "Q", "R", "S", "T", "U", "V", "W", "X", "Y", "Z", "_", "a", "b",
      "c", "d", "e", "f", "g", "h", "i", "j", "k", "l", "m", "n", "o", "p",
      "q", "r", "s", "t", "u", "v", "w", "x", "y", "z", "|", MIDDOT>>

\* the Unicode code points of Characters, in the same order
CodePoints ==
    <<32, 45, 46, 48, 49, 50, 51, 52, 53, 54, 55, 56, 57, 65, 66, 67, 68,
      69, 70, 71, 72, 73, 74, 75, 76, 77, 78, 79, 80, 81, 82, 83, 84, 85,
      86, 87, 88, 89, 90, 95, 97, 98, 99, 100, 101, 102, 103, 104, 105,
      106, 107, 108, 109, 110, 111, 112, 113, 114, 115, 116, 117, 118, 119,
      120, 121, 122, 124, 183>>

\* the position of every character in Characters
CharIndexOf ==
    [c \in {Characters[i] : i \in 1..Len(Characters)} |->
        CHOOSE i \in 1..Len(Characters) : Characters[i] = c]

CharIndex(c) == CharIndexOf[c]

CharCode(c) == CodePoints[CharIndex(c)]

\* the characters with code points 65..90
UpperCase == {Characters[i] : i \in 14..39}

\* str.lower() on one character: the code point plus 32
LowerChar(c) == IF c \in UpperCase THEN Characters[CharIndex(c) + 27] ELSE c

\* str.lower()
Lower(s) == [i \in 1..Len(s) |-> LowerChar(s[i])]

\* s < t for str: the first differing character decides, a proper prefix is
\* smaller
RECURSIVE StrLess(_, _)
StrLess(s, t) ==
    IF t = <<>> THEN FALSE
    ELSE IF s = <<>> THEN TRUE
    ELSE IF Head(s) # Head(t) THEN CharCode(Head(s)) < CharCode(Head(t))
    ELSE StrLess(Tail(s), Tail(t))

\* sub in s for str
ContainsSub(s, sub) ==
    \E i \in 0..(Len(s) - Len(sub)) : SubSeq(s, i + 1, i + Len(sub)) = sub

\* s.startswith(prefix)
StartsWith(s, prefix) ==
    Len(s) >= Len(prefix) /\ SubSeq(s, 1, Len(prefix)) = prefix

\* the characters of the folder names of NameSpec
NameAlphabet == {"0", "1"} \cup OrdinalSeparators \cup {"A", MIDDOT, PIPE}

Max(S) == CHOOSE x \in S : \A y \in S : y <= x

Min(S) == CHOOSE x \in S : \A y \in S : x <= y

\* Python s[i:j] for 0 <= i, 0 <= j: both ends are clipped to the length
Slice(s, i, j) ==
    SubSeq(s, (IF i < Len(s) THEN i ELSE Len(s)) + 1,
              IF j < Len(s) THEN j ELSE Len(s))

Contains(s, c) == \E i \in 1..Len(s) : s[i] = c

RECURSIVE LStrip(_)
LStrip(s) ==
    IF s # <<>> /\ Head(s) \in Whitespace THEN LStrip(Tail(s)) ELSE s

RECURSIVE RStrip(_)
RStrip(s) ==
    IF s # <<>> /\ s[Len(s)] \in Whitespace
    THEN RStrip(SubSeq(s, 1, Len(s) - 1))
    ELSE s

\* str.strip()
Strip(s) == RStrip(LStrip(s))

\* str.replace(old, new) for one-character old and new
Replace(s, old, new) == [i \in 1..Len(s) |-> IF s[i] = old THEN new ELSE s[i]]

----------------------------------------------------------------------------
(* ImageProcessor.generate_template1 and generate_template_grid *)

\* An optional value is <<>> (None) or <<x>>.

\* the fixed collection label, one token per character
DEFAULT_SUBTITLE == <<"biao", "qing", "bao", "he", "ji">>

CELL_WIDTH == 400

CELL_HEIGHT == 320

GRID_COLS == 3

GRID_SIZE == 15

HERO_SIZE == 9

DEFAULT_CANVAS == <<1200, 1600>>

CanvasSizes == {DEFAULT_CANVAS, <<600, 800>>}

\* int(canvas_height * 0.4), exact for the heights of CanvasSizes
HeaderHeight(h) == (h * 4) \div 10

\* the image of the header: folder.main_image when set and still on disk,
\* else the first image, else None
HeroMainImage(f, exists) ==
    IF f.main_image # <<>> /\ exists
    THEN f.main_image
    ELSE IF f.images # <<>> THEN <<f.images[1]>> ELSE <<>>

\* faulty variant of HeroGridImages: the first image is not skipped
HeroGridImagesFromFirst(images) == Slice(images, 0, 9)

\* faulty variant of HeroGridImages: no images[:9] fallback for a single image
HeroGridImagesNoFallback(images) == Slice(images, 1, 10)

\* grid_images of generate_template1
HeroGridImages(images) ==
    IF Len(images) > 1 THEN Slice(images, 1, 10) ELSE Slice(images, 0, 9)

\* the pastes of generate_template1's loop, in order
HeroPastes(images, h) ==
    LET gi == Slice(HeroGridImages(images), 0, HERO_SIZE)
    IN  [k \in 1..Len(gi) |->
            [x |-> ((k - 1) % 3) * CELL_WIDTH,
             y |-> HeaderHeight(h) + ((k - 1) \div 3) * CELL_HEIGHT,
             image |-> gi[k]]]

\* faulty variant of PadOnce: the padding repeats the first image only
PadOnceFirstOnly(gi, images) ==
    IF images = <<>>
    THEN gi
    ELSE gi \o [i \in 1..(GRID_SIZE - Len(gi)) |-> images[1]]

\* faulty variant of PadOnce: the padding takes the images back to front
PadOnceBackwards(gi, images) ==
    LET pad == Slice(images, 0, GRID_SIZE - Len(gi))
    IN  gi \o [i \in 1..Len(pad) |-> pad[Len(pad) + 1 - i]]

\* one turn of the padding loop of generate_template_grid
PadOnce(gi, images) == gi \o Slice(images, 0, GRID_SIZE - Len(gi))

\* faulty variant of ImagesAfterExtend: grid_images is folder.images itself
ImagesAfterExtendAliased(images, extended) == extended

\* folder.images after grid_images.extend(...): grid_images is a slice of
\* folder.images, which is a list of its own, so folder.images stays as it is
ImagesAfterExtend(images, extended) == images

\* faulty variant of GridPastes: the cells are a third of the canvas wide
GridPastesScaled(gi) ==
    LET first == Slice(gi, 0, GRID_SIZE)
    IN  [k \in 1..Len(first) |->
            [x |-> ((k - 1) % GRID_COLS) * (canvas_size[1] \div GRID_COLS),
             y |-> ((k - 1) \div GRID_COLS) * CELL_HEIGHT,
             image |-> first[k]]]

\* the pastes of generate_template_grid's loop, in order
GridPastes(gi) ==
    LET first == Slice(gi, 0, GRID_SIZE)
    IN  [k \in 1..Len(first) |->
            [x |-> ((k - 1) % GRID_COLS) * CELL_WIDTH,
             y |-> ((k - 1) \div GRID_COLS) * CELL_HEIGHT,
             image |-> first[k]]]

\* faulty variant of LoadAndResizeImage: no except clause
LoadAndResizeImageUncaught(img, size, bad) ==
    [raised |-> img \in bad, placeholder |-> FALSE, size |-> size]

\* load_and_resize_image: whether it raised, and the picture it returned: a
\* transparent background of the size with the image on it, or the grey
\* placeholder of the size when the file cannot be decoded
LoadAndResizeImage(img, size, bad) ==
    [raised |-> FALSE, placeholder |-> img \in bad, size |-> size]

\* the paste loops of lines 352-364 and 389-399 over the planned pastes:
\* each cell is loaded and pasted in turn; a load that raises ends the loop
\* and the function
PasteLoop(planned, bad) ==
    LET loads == [k \in 1..Len(planned) |->
                     LoadAndResizeImage(planned[k].image,
                                        <<CELL_WIDTH, CELL_HEIGHT>>, bad)]
        done == Min({k \in 1..Len(planned) : loads[k].raised}
                        \cup {Len(planned) + 1}) - 1
    IN  [pastes |-> SubSeq(planned, 1, done),
         cells |-> SubSeq(loads, 1, done),
         returned |-> done = Len(planned)]

\* the FolderInfo records of GridSpec: n images in sorted order, the main
\* image one of the first five
GridFolders ==
    {[path |-> <<"A">>, name |-> <<"A">>, image_count |-> n,
      images |-> [i \in 1..n |-> i], title |-> <<"A">>,
      subtitle |-> DEFAULT_SUBTITLE, main_image |-> m] :
        n \in 0..MaxImages, m \in {<<>>} \cup {<<i>> : i \in 1..5}}

\* ScanSpec at rest
ScanIdle ==
    /\ collection = {}
    /\ scan_min = 15
    /\ listing = <<>>
    /\ scans = <<>>
    /\ reordered = FALSE

\* ColorSpec at rest
ColorIdle ==
    /\ image = [readable |-> FALSE, pixels |-> <<>>]
    /\ theme_color = <<>>
    /\ gradient = <<>>

\* NameSpec at rest
NameIdle ==
    /\ name = <<>>
    /\ parsed = <<>>

\* Spec at rest: no AutoProcessor constructed
RunIdle ==
    /\ config = [collection_folder |-> "", min_images |-> 15,
                 templates |-> <<>>, auto_start |-> FALSE,
                 canvas_size |-> DEFAULT_CANVAS]
    /\ rootExists = FALSE
    /\ disk = {}
    /\ pc = "idle"
    /\ runResult = "none"
    /\ called = {}
    /\ response = ""
    /\ folders = <<>>
    /\ folder_idx = 0
    /\ results = <<>>
    /\ outputs = {}
    /\ packCalls = <<>>
    /\ all_packages = <<>>
    /\ master = <<>>
    /\ report = <<>>

\* GridSpec at rest
GridIdle ==
    /\ canvas_size = DEFAULT_CANVAS
    /\ folder = [path |-> <<"A">>, name |-> <<"A">>, image_count |-> 0,
                 images |-> <<>>, title |-> <<"A">>,
                 subtitle |-> DEFAULT_SUBTITLE, main_image |-> <<>>]
    /\ gpc = "idle"
    /\ start_idx = 0
    /\ grid_images = <<>>
    /\ hero = <<>>
    /\ grid = <<>>
    /\ unreadable = {}
    /\ rendered = {}

\* ServerSpec at rest: the class attributes of ServerState
ServerIdle ==
    /\ state = [collection_folder |-> <<>>, current_folder |-> <<>>,
                all_folders |-> <<>>, current_index |-> 0,
                output_dir |-> <<>>]
    /\ answer = <<>>

\* BatchSpec at rest: process_collection not called
BatchIdle ==
    /\ bpc = "idle"
    /\ server = "none"
    /\ driver = "none"
    /\ batch_folders = 0
    /\ batch_index = 0
    /\ batch_results = <<>>
    /\ batch_exit = "none"

\* SyncSpec at rest: watch not called
SyncIdle ==
    /\ debounce_seconds = 3
    /\ auto_commit = TRUE
    /\ now = 0
    /\ has_changes = FALSE
    /\ last_change = 0
    /\ wpc = "idle"
    /\ last_check = 0
    /\ pending_changes = FALSE
    /\ commits = <<>>

ToolsIdle == ServerIdle /\ BatchIdle /\ SyncIdle

\* the folders of GridSpec: every file can be decoded
GridInit ==
    /\ ToolsIdle
    /\ NameIdle
    /\ RunIdle
    /\ ScanIdle
    /\ ColorIdle
    /\ canvas_size \in CanvasSizes
    /\ folder \in {f \in GridFolders :
                      IF f.images = <<>>
                      THEN f.main_image = <<>>
                      ELSE /\ f.main_image # <<>>
                           /\ f.main_image[1] <= Len(f.images)}
    /\ gpc = "idle"
    /\ start_idx = 0
    /\ grid_images = <<>>
    /\ hero = <<>>
    /\ grid = <<>>
    /\ unreadable = {}
    /\ rendered = {}

\* generate_template1: the picture of the header, then the paste loop
GenerateTemplate1(exists) ==
    /\ gpc = "idle"
    /\ hero' =
           LET main == HeroMainImage(folder, exists)
               main_img == IF main = <<>>
                           THEN <<>>
                           ELSE <<LoadAndResizeImage(main[1], <<400, 400>>,
                                                     unreadable)>>
               loop == IF main_img # <<>> /\ main_img[1].raised
                       THEN PasteLoop(<<>>, unreadable)
                       ELSE PasteLoop(HeroPastes(folder.images,
                                                 canvas_size[2]), unreadable)
           IN  <<[main |-> main, main_img |-> main_img,
                  pastes |-> loop.pastes, cells |-> loop.cells,
                  returned |-> loop.returned
                               /\ ~(main_img # <<>> /\ main_img[1].raised)]>>
    /\ UNCHANGED <<toolVars, canvas_size, folder, gpc, start_idx, grid_images, grid,
                   unreadable, rendered, nameVars, runVars, scanVars,
                   colorVars>>

\* generate_template_grid up to the first test of the while loop
GridBegin(start) ==
    /\ gpc = "idle"
    /\ start_idx' = start
    /\ grid_images' = Slice(folder.images, start, start + GRID_SIZE)
    /\ gpc' = "pad"
    /\ UNCHANGED <<toolVars, canvas_size, folder, hero, grid, unreadable, rendered,
                   nameVars, runVars, scanVars, colorVars>>

\* one turn of the while loop: extend changes the list grid_images, and
\* folder.images with it when the two are one list
GridPad ==
    /\ gpc = "pad"
    /\ Len(grid_images) < GRID_SIZE
    /\ grid_images' = PadOnce(grid_images, folder.images)
    /\ folder' = [folder EXCEPT
                     !.images = ImagesAfterExtend(folder.images, grid_images')]
    /\ UNCHANGED <<toolVars, canvas_size, gpc, start_idx, hero, grid, unreadable,
                   rendered, nameVars, runVars, scanVars, colorVars>>

\* the paste loop and the return
GridPaste ==
    /\ gpc = "pad"
    /\ Len(grid_images) >= GRID_SIZE
    /\ grid' =
           LET loop == PasteLoop(GridPastes(grid_images), unreadable)
           IN  <<[start |-> start_idx, pastes |-> loop.pastes,
                  cells |-> loop.cells, returned |-> loop.returned]>>
    /\ rendered' = rendered \cup
           {[start |-> start_idx,
             images |-> [k \in 1..Len(grid'[1].pastes) |->
                            grid'[1].pastes[k].image]]}
    /\ gpc' = "idle"
    /\ UNCHANGED <<toolVars, canvas_size, folder, start_idx, grid_images, hero,
                   unreadable, nameVars, runVars, scanVars, colorVars>>

GridNext ==
    \/ \E exists \in BOOLEAN : GenerateTemplate1(exists)
    \/ \E i \in 2..4 : GridBegin((i - 2) * GRID_SIZE)
    \/ GridPad
    \/ GridPaste

GridSpec == GridInit /\ [][GridNext]_vars

\* the templates run to their end: a call that has started goes on, turn by
\* turn of the while loop and then through the paste loop
GridFairSpec ==
    GridInit /\ [][GridNext]_vars /\ WF_vars(GridPad) /\ WF_vars(GridPaste)

\* the folders of LoadSpec: the first image is the main image, and no file,
\* any one file or every file of the folder cannot be decoded
LoadInit ==
    /\ ToolsIdle
    /\ NameIdle
    /\ RunIdle
    /\ ScanIdle
    /\ ColorIdle
    /\ canvas_size = DEFAULT_CANVAS
    /\ folder \in {f \in GridFolders :
                      f.main_image = IF f.images = <<>> THEN <<>> ELSE <<1>>}
    /\ unreadable \in {{}, {folder.images[i] : i \in 1..Len(folder.images)}}
                          \cup {{folder.images[i]} : i \in 1..Len(folder.images)}
    /\ gpc = "idle"
    /\ start_idx = 0
    /\ grid_images = <<>>
    /\ hero = <<>>
    /\ grid = <<>>
    /\ rendered = {}

\* the templates on folders with files that cannot be decoded
LoadSpec == LoadInit /\ [][GridNext]_vars

----------------------------------------------------------------------------
(* Claims about the templates (GridSpec) *)

NumImages == Len(folder.images)

\* images[i] for a 0-based i
ImageAt(i) == folder.images[i + 1]

\* how many images the slice images[start : start+15] holds
SliceLen(start) ==
    IF NumImages <= start THEN 0
    ELSE IF NumImages - start < GRID_SIZE THEN NumImages - start
    ELSE GRID_SIZE

\* C2: a finished grid template of a folder with n >= 1 images holds exactly
\* 15 pastes; paste k (0..14) sits in column k mod 3, row k div 3 and shows
\* images[start + k] while the slice lasts and then the images from index 0
\* on, the list repeated as often as needed.
C2_GridWrapsToFifteen ==
    (grid # <<>> /\ NumImages >= 1) =>
        LET g == grid[1]
            a == SliceLen(g.start)
        IN  /\ Len(g.pastes) = GRID_SIZE
            /\ \A k \in 0..(GRID_SIZE - 1) :
                  /\ g.pastes[k + 1].image =
                        IF k < a THEN ImageAt(g.start + k)
                        ELSE ImageAt((k - a) % NumImages)
                  /\ g.pastes[k + 1].x = (k % 3) * 400
                  /\ g.pastes[k + 1].y = (k \div 3) * 320

\* 16 images and start 15: image 15 and then images 0..13
C2_Witness ==
    /\ grid # <<>>
    /\ NumImages = 16
    /\ grid[1].start = 15
    /\ [k \in 1..Len(grid[1].pastes) |-> grid[1].pastes[k].image]
           = <<16, 1, 2, 3, 4, 5, 6, 7, 8, 9, 10, 11, 12, 13, 14>>

\* the smaller of 9 and n - 1
HeroFilled == IF NumImages - 1 < 9 THEN NumImages - 1 ELSE 9

\* C6: the hero template of a folder with n > 1 images fills exactly
\* min(9, n-1) slots; slot k (row k div 3, column k mod 3, below the header)
\* shows images[k + 1], and no image is shown twice.
C6_HeroGridSkipsFirst ==
    (hero # <<>> /\ NumImages > 1) =>
        LET p == hero[1].pastes
        IN  /\ Len(p) = HeroFilled
            /\ \A k \in 0..(Len(p) - 1) :
                  /\ p[k + 1].image = ImageAt(k + 1)
                  /\ p[k + 1].x = (k % 3) * 400
                  /\ p[k + 1].y = HeaderHeight(canvas_size[2]) + (k \div 3) * 320
            /\ \A j, k \in 1..Len(p) : p[j].image = p[k].image => j = k

\* a hero template with some slots left unfilled: 5 images, 4 slots
C6_Witness ==
    /\ hero # <<>>
    /\ NumImages = 5
    /\ Len(hero[1].pastes) = 4
    /\ hero[1].pastes[4].image = 5

\* C7 as stated: with exactly one image, that image is the header portrait
\* and fills all 9 slots of the hero grid.
C7_SingleImageFillsNineSlots ==
    (hero # <<>> /\ NumImages = 1) =>
        /\ hero[1].main = <<ImageAt(0)>>
        /\ Len(hero[1].pastes) = 9
        /\ \A k \in 1..Len(hero[1].pastes) : hero[1].pastes[k].image = ImageAt(0)

\* C7 amended: with exactly one image, that image is the header portrait and
\* the only image of the hero grid: it is pasted once, into slot 0, and the
\* slots 1..8 stay unfilled.
C7_SingleImageFillsSlotZero ==
    (hero # <<>> /\ NumImages = 1) =>
        /\ hero[1].main = <<ImageAt(0)>>
        /\ Len(hero[1].pastes) = 1
        /\ hero[1].pastes[1].image = ImageAt(0)
        /\ hero[1].pastes[1].x = 0
        /\ hero[1].pastes[1].y = HeaderHeight(canvas_size[2])

\* the hero template of a folder of one image has been drawn
C7_Witness ==
    /\ hero # <<>>
    /\ NumImages = 1
    /\ hero[1].main = <<1>>
    /\ Len(hero[1].pastes) = 1

----------------------------------------------------------------------------
(* FolderScanner._parse_folder_name *)

FirstIndex(s, c) == Min({i \in 1..Len(s) : s[i] = c})

\* faulty variant of Split: split(sep, 1), at most one cut
SplitOnce(s, sep) ==
    IF ~Contains(s, sep)
    THEN <<s>>
    ELSE LET i == FirstIndex(s, sep)
         IN  <<SubSeq(s, 1, i - 1), SubSeq(s, i + 1, Len(s))>>

\* str.split(sep): the list of the parts between the occurrences of sep
RECURSIVE Split(_, _)
Split(s, sep) ==
    IF ~Contains(s, sep)
    THEN <<s>>
    ELSE LET i == FirstIndex(s, sep)
         IN  <<SubSeq(s, 1, i - 1)>> \o Split(SubSeq(s, i + 1, Len(s)), sep)

\* faulty variant of OrdinalConfigs: the separator class with + instead of *
OrdinalConfigsPlus(n) ==
    {c \in (1..Len(n)) \X (1..Len(n)) :
        /\ \A i \in 1..c[1] : n[i] \in Digits
        /\ \A i \in (c[1] + 1)..(c[1] + c[2]) :
               i <= Len(n) /\ n[i] \in OrdinalSeparators
        /\ c[1] + c[2] < Len(n)}

\* The ways ^(\d+)[\.\-_\s]*(.+)$ can match: <<d, s>> is d digits taken by
\* (\d+), then s separators taken by the class, then a non-empty rest.
OrdinalConfigs(n) ==
    {c \in (1..Len(n)) \X (0..Len(n)) :
        /\ \A i \in 1..c[1] : n[i] \in Digits
        /\ \A i \in (c[1] + 1)..(c[1] + c[2]) :
               i <= Len(n) /\ n[i] \in OrdinalSeparators
        /\ c[1] + c[2] < Len(n)}

\* re.match with greedy quantifiers: the most digits, then the most
\* separators; the result is <<group(2)>>, or <<>> when nothing matches
OrdinalMatch(n) ==
    LET cs == OrdinalConfigs(n)
    IN  IF cs = {}
        THEN <<>>
        ELSE LET d == Max({c[1] : c \in cs})
                 s == Max({c[2] : c \in {x \in cs : x[1] = d}})
             IN  <<SubSeq(n, d + s + 1, Len(n))>>

\* title after the ordinal step, before the clean-up
OrdinalStripped(n) ==
    LET m == OrdinalMatch(n)
    IN  IF m # <<>> THEN Strip(m[1]) ELSE n

CleanTitle(t) == Strip(Replace(Replace(t, "_", " "), "-", " "))

\* the title and subtitle taken from the cleaned title
\* faulty variant of SplitTitle: the mid-dot is no separator
SplitTitleBarOnly(t) ==
    IF Contains(t, PIPE)
    THEN LET parts == Split(t, PIPE)
         IN  <<Strip(parts[1]),
               IF Len(parts) > 1 THEN Strip(parts[2]) ELSE DEFAULT_SUBTITLE>>
    ELSE <<t, DEFAULT_SUBTITLE>>

SplitTitle(t) ==
    IF Contains(t, MIDDOT)
    THEN LET parts == Split(t, MIDDOT)
         IN  <<Strip(parts[1]),
               IF Len(parts) > 1 THEN Strip(parts[2]) ELSE DEFAULT_SUBTITLE>>
    ELSE IF Contains(t, PIPE)
    THEN LET parts == Split(t, PIPE)
         IN  <<Strip(parts[1]),
               IF Len(parts) > 1 THEN Strip(parts[2]) ELSE DEFAULT_SUBTITLE>>
    ELSE <<t, DEFAULT_SUBTITLE>>

\* <<title after the ordinal step, title, subtitle>>; the function returns
\* the last two
ParseFolderName(n) ==
    LET working == OrdinalStripped(n)
        ts == SplitTitle(CleanTitle(working))
    IN  <<working, ts[1], ts[2]>>

NameInit ==
    /\ ToolsIdle
    /\ NameIdle
    /\ GridIdle
    /\ RunIdle
    /\ ScanIdle
    /\ ColorIdle

\* the next character of the folder name under test
TypeChar(c) ==
    /\ parsed = <<>>
    /\ Len(name) < MaxNameLen
    /\ name' = Append(name, c)
    /\ UNCHANGED <<toolVars, parsed, gridVars, runVars, scanVars,
                   colorVars>>

CallParseFolderName ==
    /\ name # <<>>
    /\ parsed = <<>>
    /\ parsed' = ParseFolderName(name)
    /\ UNCHANGED <<toolVars, name, gridVars, runVars, scanVars,
                   colorVars>>

NameNext ==
    \/ \E c \in NameAlphabet : TypeChar(c)
    \/ CallParseFolderName

NameSpec == NameInit /\ [][NameNext]_vars

ParsedWorking == parsed[1]

ParsedTitle == parsed[2]

ParsedSubtitle == parsed[3]

\* the cleaned working title the split works on
ParsedClean == CleanTitle(ParsedWorking)

----------------------------------------------------------------------------
(* Claims about _parse_folder_name (NameSpec) *)

IsSeparator(c) == c \in {MIDDOT, PIPE}

\* the number of leading digits of n
LeadingDigits(n) == Max({d \in 0..Len(n) : \A i \in 1..d : n[i] \in Digits})

\* the number of ordinal separators of n directly after position d
SeparatorRun(n, d) ==
    Max({k \in 0..(Len(n) - d) :
            \A i \in (d + 1)..(d + k) : n[i] \in OrdinalSeparators})

\* C9 as stated: with a '·' or a '|' in the cleaned working title, the title
\* is the trimmed text before the first separator of either kind and the
\* subtitle is all the trimmed text after it; with neither, the subtitle is
\* the collection label.
C9_SplitOnFirstSeparator ==
    parsed # <<>> =>
        LET w == ParsedClean
            idx == {k \in 1..Len(w) : IsSeparator(w[k])}
        IN  IF idx # {}
            THEN /\ ParsedTitle = Strip(SubSeq(w, 1, Min(idx) - 1))
                 /\ ParsedSubtitle = Strip(SubSeq(w, Min(idx) + 1, Len(w)))
            ELSE ParsedSubtitle = DEFAULT_SUBTITLE

\* C9 amended: '·' is looked for before '|'.  With a '·' in the cleaned
\* working title, the title is the trimmed text before the first '·' and the
\* subtitle is the trimmed text between the first and the second '·' (up to
\* the end when there is only one); without '·' but with '|', the same holds
\* for '|'; with neither, the title is the cleaned working title and the
\* subtitle is the collection label.
C9_SplitBetweenFirstTwo ==
    parsed # <<>> =>
        LET w == ParsedClean
            sep == IF Contains(w, MIDDOT) THEN MIDDOT ELSE PIPE
            idx == {k \in 1..Len(w) : w[k] = sep}
        IN  IF idx # {}
            THEN LET i == Min(idx)
                     j == Min((idx \ {i}) \cup {Len(w) + 1})
                 IN  /\ ParsedTitle = Strip(SubSeq(w, 1, i - 1))
                     /\ ParsedSubtitle = Strip(SubSeq(w, i + 1, j - 1))
            ELSE /\ ParsedTitle = w
                 /\ ParsedSubtitle = DEFAULT_SUBTITLE

\* the name 'A|A·A' parsed: the '|' stays in the title
C9_Witness ==
    /\ parsed # <<>>
    /\ name = <<"A", PIPE, "A", MIDDOT, "A">>
    /\ ParsedTitle = <<"A", PIPE, "A">>
    /\ ParsedSubtitle = <<"A">>

\* C10 as stated: a name that does not start with digits followed by an
\* ordinal separator keeps its full text as the working title.
C10_PrefixNeedsSeparator ==
    parsed # <<>> =>
        LET d == LeadingDigits(name)
            prefixed == d >= 1 /\ SeparatorRun(name, d) >= 1
        IN  ~prefixed => ParsedWorking = name

\* C10 amended: a name starting with d >= 1 digits followed by k >= 0 ordinal
\* separators loses both (and surrounding whitespace) whenever some text
\* follows them, no separator being needed; digits followed by separators
\* only keep the last separator; two or more digits alone keep the last
\* digit; a name without leading digits or of a single digit is kept whole.
C10_OrdinalRegex ==
    parsed # <<>> =>
        LET n == name
            d == LeadingDigits(n)
            k == SeparatorRun(n, d)
        IN  IF d = 0 \/ Len(n) = 1
            THEN ParsedWorking = n
            ELSE IF d + k < Len(n)
            THEN ParsedWorking = Strip(SubSeq(n, d + k + 1, Len(n)))
            ELSE ParsedWorking = Strip(<<n[Len(n)]>>)

\* digits directly followed by a letter: the digits are removed all the same
C10_Witness ==
    /\ parsed # <<>>
    /\ name = <<"0", "1", "A">>
    /\ ParsedWorking = <<"A">>


----------------------------------------------------------------------------
(* FolderScanner.scan and _process_subfolder *)

\* A file of a subfolder is [stem, suffix, is_file]; its name is the stem
\* followed by the suffix.  An entry of the collection folder is
\* [name, is_dir, files].

SUPPORTED_FORMATS ==
    {<<".", "j", "p", "g">>, <<".", "j", "p", "e", "g">>,
     <<".", "p", "n", "g">>, <<".", "g", "i", "f">>,
     <<".", "w", "e", "b", "p">>, <<".", "b", "m", "p">>}

EXCLUDE_NAMES ==
    {<<"_", "k", "e", "y">>, <<"_", "s", ".">>,
     <<"t", "a", "b", "_", "o", "f", "f">>, <<"t", "a", "b", "_", "o", "n">>}

MAIN_KEYWORDS ==
    {<<"m", "a", "i", "n">>, <<"c", "o", "v", "e", "r">>, <<"0", "1">>,
     <<"1", "_">>}

FileName(f) == f.stem \o f.suffix

\* the test of lines 467-470
IsImage(f) ==
    /\ f.is_file
    /\ Lower(f.suffix) \in SUPPORTED_FORMATS
    /\ ~\E e \in EXCLUDE_NAMES : ContainsSub(f.stem, e)

\* images.sort(key=lambda x: x.name); the names of one folder differ
RECURSIVE SortByName(_)
SortByName(S) ==
    IF S = {}
    THEN <<>>
    ELSE LET m == CHOOSE f \in S :
                      \A g \in S \ {f} : StrLess(FileName(f), FileName(g))
         IN  <<m>> \o SortByName(S \ {m})

\* faulty variant of SelectMainImage: every image is searched for a keyword
SelectMainImageAnywhere(images) ==
    LET hits == {i \in 1..Len(images) :
                    \E kw \in MAIN_KEYWORDS :
                        ContainsSub(Lower(images[i].stem), kw)}
    IN  IF hits # {} THEN <<images[Min(hits)]>>
        ELSE IF images # <<>> THEN <<images[1]>>
        ELSE <<>>

\* the main image of lines 485-489, as an optional value
SelectMainImage(images) ==
    LET first == Slice(images, 0, 5)
        hits == {i \in 1..Len(first) :
                    \E kw \in MAIN_KEYWORDS :
                        ContainsSub(Lower(first[i].stem), kw)}
    IN  IF hits # {} THEN <<first[Min(hits)]>>
        ELSE IF images # <<>> THEN <<images[1]>>
        ELSE <<>>

\* faulty variant of EnoughImages: every file of the folder counts
EnoughFiles(files, images, min_images) == ~(Cardinality(files) < min_images)

\* the negation of the test of line 476
EnoughImages(files, images, min_images) == ~(Len(images) < min_images)

\* _process_subfolder from the sorted image list on: <<>> for None, else
\* <<FolderInfo>>
MakeFolderInfo(entry, images, min_images) ==
    LET ts == ParseFolderName(entry.name)
    IN  IF ~EnoughImages(entry.files, images, min_images)
        THEN <<>>
        ELSE <<[path |-> entry.name,
                name |-> entry.name,
                image_count |-> Len(images),
                images |-> images,
                title |-> ts[2],
                subtitle |-> ts[3],
                main_image |-> SelectMainImage(images)]>>

\* _process_subfolder on the file set of a subfolder
ProcessSubfolder(entry, min_images) ==
    MakeFolderInfo(entry, SortByName({f \in entry.files : IsImage(f)}),
                   min_images)

\* sorted(collection_path.iterdir())
RECURSIVE SortEntries(_)
SortEntries(S) ==
    IF S = {}
    THEN <<>>
    ELSE LET m == CHOOSE e \in S : \A g \in S \ {e} : StrLess(e.name, g.name)
         IN  <<m>> \o SortEntries(S \ {m})

\* the loop of lines 453-457 over the sorted entries
RECURSIVE ScanItems(_, _)
ScanItems(items, min_images) ==
    IF items = <<>>
    THEN <<>>
    ELSE LET item == Head(items)
             info == IF item.is_dir /\ ~StartsWith(item.name, <<".">>)
                     THEN ProcessSubfolder(item, min_images)
                     ELSE <<>>
         IN  info \o ScanItems(Tail(items), min_images)

\* scan on an existing collection folder
Scan(entries, min_images) == ScanItems(SortEntries(entries), min_images)

----------------------------------------------------------------------------
(* The collection folders and configurations of Spec *)

DigitChar(i) == Characters[4 + i]

\* the i-th image file of a subfolder: s1.png, s2.JPG, s3.png, ...
ImageFile(i) ==
    [stem |-> <<"s", DigitChar(i)>>,
     suffix |-> IF i % 2 = 1 THEN <<".", "p", "n", "g">>
                ELSE <<".", "J", "P", "G">>,
     is_file |-> TRUE]

\* what else every subfolder holds: a tab icon, a text file, a directory
OtherFiles ==
    {[stem |-> <<"t", "a", "b", "_", "o", "n">>,
      suffix |-> <<".", "p", "n", "g">>, is_file |-> TRUE],
     [stem |-> <<"n">>, suffix |-> <<".", "t", "x", "t">>, is_file |-> TRUE],
     [stem |-> <<"d">>, suffix |-> <<".", "p", "n", "g">>, is_file |-> FALSE]}

DirFiles(n) == {ImageFile(i) : i \in 1..n} \cup OtherFiles

VisibleDirNames == {<<"0", "1", "A">>, <<"B", MIDDOT, "C">>}

\* what else the collection folder holds: a hidden directory and a file
OtherEntries ==
    {[name |-> <<".", "h">>, is_dir |-> TRUE, files |-> DirFiles(MaxDirImages)],
     [name |-> <<"s", "1", ".", "p", "n", "g">>, is_dir |-> FALSE,
      files |-> {}]}

Disks ==
    {OtherEntries \cup
         {[name |-> d, is_dir |-> TRUE, files |-> DirFiles(k[d])] : d \in D} :
        D \in SUBSET VisibleDirNames,
        k \in [VisibleDirNames -> 0..MaxDirImages]}

TemplateKeys == <<"template1", "template2", "template3", "template4">>

\* the "templates" dictionaries: any of the four keys, each True or False
TemplateConfigs ==
    UNION {[K -> BOOLEAN] : K \in SUBSET {TemplateKeys[i] : i \in 1..4}}

Configs ==
    [collection_folder : {"", "root"},
     min_images : 0..MaxMinImages,
     templates : TemplateConfigs,
     auto_start : BOOLEAN,
     canvas_size : {DEFAULT_CANVAS}]


----------------------------------------------------------------------------
(* ImageProcessor.process_folder and AutoProcessor.run (Spec) *)

\* templates_config.get(key, True)
Enabled(tc, key) == IF key \in DOMAIN tc THEN tc[key] ELSE TRUE

\* faulty variant of EnabledTemplates: a missing flag counts as disabled
EnabledTemplatesStrict(tc) ==
    SelectSeq(<<1, 2, 3, 4>>,
              LAMBDA i : TemplateKeys[i] \in DOMAIN tc /\ tc[TemplateKeys[i]])

\* the numbers of the templates process_folder generates, in its order:
\* template 1, then the loop over templates 2, 3, 4
EnabledTemplates(tc) ==
    SelectSeq(<<1, 2, 3, 4>>, LAMBDA i : Enabled(tc, TemplateKeys[i]))

\* the padding loop of generate_template_grid run to its end; a list that a
\* turn of the loop leaves as it is stays as it is (the loop does not end
\* then, see HangsAt)
RECURSIVE PadAll(_, _)
PadAll(gi, images) ==
    IF Len(gi) >= GRID_SIZE \/ PadOnce(gi, images) = gi
    THEN gi
    ELSE PadAll(PadOnce(gi, images), images)

\* the first template whose rendering never returns: with an empty image
\* list the padding loop of the first enabled grid template; 0 if none
HangsAt(f, tc) ==
    LET grids == {i \in 2..4 : Enabled(tc, TemplateKeys[i])}
    IN  IF f.images = <<>> /\ grids # {} THEN Min(grids) ELSE 0

\* the places where processing one folder can raise
FailPoints == {"none", "mkdir", "package"} \cup {TemplateKeys[i] : i \in 1..4}

FailedTemplate(fail) ==
    IF \E i \in 1..4 : TemplateKeys[i] = fail
    THEN CHOOSE i \in 1..4 : TemplateKeys[i] = fail
    ELSE 0

\* whether the failure `fail` can happen for folder f
CanFail(f, tc, fail) ==
    LET k == FailedTemplate(fail)
        h == HangsAt(f, tc)
    IN  \/ fail \in {"none", "mkdir"}
        \/ /\ k # 0
           /\ Enabled(tc, TemplateKeys[k])
           /\ h # 0 => k <= h
        \/ /\ fail = "package"
           /\ h = 0
           /\ EnabledTemplates(tc) # <<>>

\* faulty variant of TemplatesWritten: a template that raises is skipped and the
\* later ones are still written
TemplatesWrittenIsolated(enabled, stop) ==
    SelectSeq(enabled, LAMBDA i : i # stop)

\* the templates written when process_folder stops at template `stop`
\* (5: it does not stop): those generated before it
TemplatesWritten(enabled, stop) == SelectSeq(enabled, LAMBDA i : i < stop)

OutputPath(f, i) == [dir |-> f.name, index |-> i]

\* the two characters of the hero label and of the grid label of the file
\* names, one token per character
HERO_LABEL == <<"tou", "tu">>

GRID_LABEL == <<"wang", "ge">>

\* faulty variant of OutputName: the grid templates are not numbered
OutputNameUnnumbered(f, i) ==
    IF i = 1
    THEN <<"0", "1", "_">> \o HERO_LABEL \o <<"_">> \o f.name
             \o <<".", "j", "p", "g">>
    ELSE <<"0", "2", "_">> \o GRID_LABEL \o <<"_">> \o f.name
             \o <<".", "j", "p", "g">>

\* the file name of template i under the output folder of f: the f-strings
\* of lines 417 and 427
OutputName(f, i) ==
    IF i = 1
    THEN <<"0", "1", "_">> \o HERO_LABEL \o <<"_">> \o f.name
             \o <<".", "j", "p", "g">>
    ELSE <<"0", DigitChar(i), "_">> \o GRID_LABEL \o <<DigitChar(i - 1), "_">>
             \o f.name \o <<".", "j", "p", "g">>

\* the file of template i of folder f: written to path.dir under the output
\* folder, with the name `file`
OutputFile(f, i, exists, size) ==
    [path |-> OutputPath(f, i),
     file |-> OutputName(f, i),
     content |->
        IF i = 1
        THEN [main |-> HeroMainImage(f, exists),
              pastes |-> HeroPastes(f.images, size[2])]
        ELSE [start |-> (i - 2) * GRID_SIZE,
              pastes |-> GridPastes(
                  PadAll(Slice(f.images, (i - 2) * GRID_SIZE,
                               (i - 2) * GRID_SIZE + GRID_SIZE), f.images))]]

\* faulty variant of ValidConfig: the collection folder is not looked up
ValidConfigUnchecked(cfg, exists) == cfg.collection_folder # ""

\* validate_config
ValidConfig(cfg, exists) == cfg.collection_folder # "" /\ exists

\* faulty variant of AfterFolder: no except clause around the loop body
AfterFolderUncaught(kind) ==
    IF kind = "hang" THEN "hung"
    ELSE IF kind = "raise" THEN "raised"
    ELSE "processing"

\* where process_with_pil stands after the body of its loop: an exception
\* is caught by the except clause and the loop goes on
AfterFolder(kind) == IF kind = "hang" THEN "hung" ELSE "processing"

\* faulty variant of SaveReport: the failed folders are left out
SaveReportSuccessesOnly(rs) ==
    LET ok == SelectSeq(rs, LAMBDA r : r.success)
    IN  <<[results |-> ok, total |-> Len(ok), success |-> Len(ok),
           failed |-> 0]>>

\* _save_report: the report written to _processing_report.json, with the
\* results and the three numbers of its summary
SaveReport(rs) ==
    <<[results |-> rs,
       total |-> Len(rs),
       success |-> Cardinality({i \in 1..Len(rs) : rs[i].success}),
       failed |-> Cardinality({i \in 1..Len(rs) : ~rs[i].success})]>>

Init ==
    /\ ToolsIdle
    /\ NameIdle
    /\ GridIdle
    /\ ScanIdle
    /\ ColorIdle
    /\ config \in Configs
    /\ rootExists \in BOOLEAN
    /\ config.collection_folder = "" => ~rootExists
    /\ disk \in IF rootExists THEN Disks ELSE {{}}
    /\ pc = "start"
    /\ runResult = "none"
    /\ called = {}
    /\ response = ""
    /\ folders = <<>>
    /\ folder_idx = 0
    /\ results = <<>>
    /\ outputs = {}
    /\ packCalls = <<>>
    /\ all_packages = <<>>
    /\ master = <<>>
    /\ report = <<>>

\* run: validate_config and the return of False
ValidateConfig ==
    /\ pc = "start"
    /\ called' = called \cup {"validate_config"}
    /\ IF ValidConfig(config, rootExists)
       THEN pc' = "validated" /\ UNCHANGED runResult
       ELSE pc' = "returned" /\ runResult' = "False"
    /\ UNCHANGED <<toolVars, config, rootExists, disk, response, folders, folder_idx,
                   results, outputs, packCalls, all_packages, master, report,
                   nameVars, gridVars, scanVars,
                   colorVars>>

\* the file system: the collection folder is removed after validation
RemoveRoot ==
    /\ pc = "validated"
    /\ rootExists
    /\ rootExists' = FALSE
    /\ disk' = {}
    /\ UNCHANGED <<toolVars, config, pc, runResult, called, response, folders,
                   folder_idx, results, outputs, packCalls, all_packages,
                   master, report, nameVars, gridVars, scanVars,
                   colorVars>>

\* run: scan_folders, with FolderScanner.scan
ScanFolders ==
    /\ pc = "validated"
    /\ called' = called \cup {"scan"}
    /\ IF ~rootExists
       THEN /\ pc' = "raised"
            /\ runResult' = "raised"
            /\ UNCHANGED folders
       ELSE /\ folders' = Scan(disk, config.min_images)
            /\ IF folders' = <<>>
               THEN pc' = "returned" /\ runResult' = "False"
               ELSE pc' = "scanned" /\ UNCHANGED runResult
    /\ UNCHANGED <<toolVars, config, rootExists, disk, response, folder_idx, results,
                   outputs, packCalls, all_packages, master, report,
                   nameVars, gridVars, scanVars,
                   colorVars>>

\* run: the confirmation prompt; r is the answer, stripped and lowered
Confirm(r) ==
    /\ pc = "scanned"
    /\ IF config.auto_start
       THEN /\ pc' = "processing"
            /\ called' = called \cup {"process_with_pil"}
            /\ UNCHANGED <<toolVars, response, runResult>>
       ELSE /\ response' = r
            /\ IF r = "y"
               THEN /\ pc' = "processing"
                    /\ called' = called \cup {"process_with_pil"}
                    /\ UNCHANGED runResult
               ELSE /\ pc' = "returned"
                    /\ runResult' = "False"
                    /\ UNCHANGED called
    /\ UNCHANGED <<toolVars, config, rootExists, disk, folders, folder_idx, results,
                   outputs, packCalls, all_packages, master, report,
                   nameVars, gridVars, scanVars,
                   colorVars>>

\* process_with_pil: the body of the loop for the next folder, with
\* process_folder and package_folder; `fail` is where it raises and
\* `exists` whether the main image is still on disk
ProcessFolder(fail, exists) ==
    /\ pc = "processing"
    /\ folder_idx < Len(folders)
    /\ LET f == folders[folder_idx + 1]
           tc == config.templates
           k == FailedTemplate(fail)
           h == HangsAt(f, tc)
           stop == IF fail = "mkdir" THEN 0
                   ELSE IF k # 0 THEN k
                   ELSE IF h # 0 THEN h
                   ELSE 5
           kind == IF fail = "mkdir" \/ k # 0 THEN "raise"
                   ELSE IF h # 0 THEN "hang"
                   ELSE IF fail = "package" THEN "raise"
                   ELSE "ok"
           written == TemplatesWritten(EnabledTemplates(tc), stop)
           generated_files == [j \in 1..Len(written) |->
                                  OutputPath(f, written[j])]
           packed == stop = 5 /\ generated_files # <<>>
       IN  /\ CanFail(f, tc, fail)
           /\ outputs' = outputs \cup
                  {OutputFile(f, written[j], exists, config.canvas_size) :
                      j \in 1..Len(written)}
           /\ packCalls' =
                  IF packed
                  THEN Append(packCalls,
                              [folder |-> f.name, files |-> generated_files])
                  ELSE packCalls
           /\ all_packages' =
                  IF packed /\ kind = "ok"
                  THEN Append(all_packages, f.name)
                  ELSE all_packages
           /\ results' =
                  IF kind = "ok"
                  THEN Append(results, [folder |-> f.name, success |-> TRUE,
                                        files |-> generated_files,
                                        error |-> ""])
                  ELSE IF kind = "raise"
                  THEN Append(results, [folder |-> f.name, success |-> FALSE,
                                        files |-> <<>>, error |-> fail])
                  ELSE results
           /\ folder_idx' = IF kind = "hang" THEN folder_idx ELSE folder_idx + 1
           /\ pc' = AfterFolder(kind)
           /\ runResult' = IF pc' = "raised" THEN "raised" ELSE runResult
    /\ UNCHANGED <<toolVars, config, rootExists, disk, called, response, folders,
                   master, report, nameVars, gridVars, scanVars,
                   colorVars>>

\* process_with_pil after the loop: the master package and _save_report;
\* then run returns True
FinishBatch ==
    /\ pc = "processing"
    /\ folder_idx = Len(folders)
    /\ master' = IF all_packages # <<>> THEN <<all_packages>> ELSE <<>>
    /\ report' = SaveReport(results)
    /\ pc' = "returned"
    /\ runResult' = "True"
    /\ UNCHANGED <<toolVars, config, rootExists, disk, called, response, folders,
                   folder_idx, results, outputs, packCalls, all_packages,
                   nameVars, gridVars, scanVars,
                   colorVars>>

Next ==
    \/ ValidateConfig
    \/ RemoveRoot
    \/ ScanFolders
    \/ \E r \in {"y", "n"} : Confirm(r)
    \/ \E fail \in FailPoints, exists \in BOOLEAN : ProcessFolder(fail, exists)
    \/ FinishBatch

Spec == Init /\ [][Next]_vars

\* the folder of the walk-through: 03_Happy(mid-dot)Cats
HAPPY_CATS ==
    <<"0", "3", "_", "H", "a", "p", "p", "y", MIDDOT, "C", "a", "t", "s">>

\* a collection folder that holds this folder alone, with one PNG in it
E2EInit ==
    /\ ToolsIdle
    /\ NameIdle
    /\ GridIdle
    /\ ScanIdle
    /\ ColorIdle
    /\ config \in {c \in Configs : c.collection_folder # ""}
    /\ rootExists = TRUE
    /\ disk = {[name |-> HAPPY_CATS, is_dir |-> TRUE,
                files |-> {ImageFile(1)}]}
    /\ pc = "start"
    /\ runResult = "none"
    /\ called = {}
    /\ response = ""
    /\ folders = <<>>
    /\ folder_idx = 0
    /\ results = <<>>
    /\ outputs = {}
    /\ packCalls = <<>>
    /\ all_packages = <<>>
    /\ master = <<>>
    /\ report = <<>>

E2ESpec == E2EInit /\ [][Next]_vars


----------------------------------------------------------------------------
(* Claims about the run (Spec) *)

\* the number of files of entry e that pass the image test
QualifyingCount(e) == Cardinality({f \in e.files : IsImage(f)})

\* the written template files of the folder named d
OutputsOf(d) == {o \in outputs : o.path.dir = d}

\* the calls of package_folder for the folder named d
PackCallsOf(d) == {c \in 1..Len(packCalls) : packCalls[c].folder = d}

\* C1: every record scan returned has image_count = len(images) and
\* image_count >= min_images; a subfolder with fewer qualifying images has
\* no record, is never processed and gets no output file and no package.
C1_ScanKeepsMinImages ==
    /\ \A i \in 1..Len(folders) :
          /\ folders[i].image_count = Len(folders[i].images)
          /\ folders[i].image_count >= config.min_images
    /\ \A e \in disk :
          QualifyingCount(e) < config.min_images =>
              /\ \A i \in 1..Len(folders) : folders[i].name # e.name
              /\ \A i \in 1..Len(results) : results[i].folder # e.name
              /\ OutputsOf(e.name) = {}
              /\ PackCallsOf(e.name) = {}

\* a finished run that wrote templates while a subfolder of the collection
\* had too few images
C1_Witness ==
    /\ runResult = "True"
    /\ outputs # {}
    /\ \E e \in disk :
          /\ e.is_dir
          /\ e.name \in VisibleDirNames
          /\ QualifyingCount(e) = 0
          /\ config.min_images = 1

\* the template whose failure the i-th result records, 0 if none
FailedAt(i) == FailedTemplate(results[i].error)

TemplateOn(j) == Enabled(config.templates, TemplateKeys[j])

\* C3 as stated: when template k of a folder raises, the enabled templates
\* k+1..4 of that folder are still written.
C3_LaterTemplatesStillWritten ==
    \A i \in 1..Len(results) :
        FailedAt(i) # 0 =>
            \A j \in (FailedAt(i) + 1)..4 :
                TemplateOn(j) =>
                    \E o \in outputs : o.path = OutputPath(folders[i], j)

\* C3 amended: when template k of a folder raises, the exception leaves
\* process_folder: of that folder exactly the enabled templates before k
\* are written, none after it, and no package is made; the failure is
\* caught in process_with_pil, recorded as the folder's failed result, and
\* the batch goes on with the next folder.
C3_FailureEndsTheFolder ==
    \A i \in 1..Len(results) :
        FailedAt(i) # 0 =>
            /\ results[i].folder = folders[i].name
            /\ ~results[i].success
            /\ \A j \in 1..4 :
                  (\E o \in outputs : o.path = OutputPath(folders[i], j))
                      <=> (j < FailedAt(i) /\ TemplateOn(j))
            /\ PackCallsOf(results[i].folder) = {}
            /\ pc \in {"processing", "hung", "returned"}
            /\ folder_idx >= i

\* template 2 of the first folder raised: template 1 is written, the enabled
\* templates 3 and 4 are not, and the second folder was processed
C3_Witness ==
    /\ Len(results) = 2
    /\ results[1].error = "template2"
    /\ results[2].success
    /\ TemplateOn(1) /\ TemplateOn(3) /\ TemplateOn(4)
    /\ {o.path.index : o \in OutputsOf(results[1].folder)} = {1}

\* C4: process_with_pil appends one result per folder, in scan order; a
\* folder that raised has a failed entry with the error message; no
\* exception leaves the batch, and after it every scanned folder has its
\* entry.
C4_OneResultPerFolder ==
    /\ Len(results) = folder_idx
    /\ Len(results) <= Len(folders)
    /\ \A i \in 1..Len(results) :
          /\ results[i].folder = folders[i].name
          /\ ~results[i].success =>
                 results[i].error \in FailPoints \ {"none"}
    /\ "process_with_pil" \in called => runResult # "raised"
    /\ runResult = "True" => Len(results) = Len(folders)

\* a finished batch whose first folder failed and whose second succeeded
C4_Witness ==
    /\ runResult = "True"
    /\ Len(results) = 2
    /\ ~results[1].success
    /\ results[2].success

\* the j-th smallest element of the set S of numbers
Nth(S, j) == CHOOSE t \in S : Cardinality({u \in S : u < t}) = j - 1

\* the output paths of the enabled templates of folder f, template 1 first
ExpectedPaths(f) ==
    LET on == {t \in 1..4 :
                  \/ TemplateKeys[t] \notin DOMAIN config.templates
                  \/ config.templates[TemplateKeys[t]]}
    IN  [j \in 1..Cardinality(on) |-> [dir |-> f.name, index |-> Nth(on, j)]]

\* whether process_folder returned for the i-th result
Returned(i) == results[i].success \/ results[i].error = "package"

\* C5 as stated: a successful process_folder returns one path per enabled
\* template, hero first, and that list is handed to package_folder.
C5_ListAlwaysPackaged ==
    \A i \in 1..Len(results) :
        /\ results[i].success => results[i].files = ExpectedPaths(folders[i])
        /\ Returned(i) =>
              \E c \in PackCallsOf(results[i].folder) :
                  packCalls[c].files = ExpectedPaths(folders[i])

\* C5 amended: a successful process_folder returns one path per enabled
\* template and none for a disabled one, hero first and then grids 2, 3, 4;
\* when at least one template is enabled this list is handed to
\* package_folder in the same order, and when all four are disabled the
\* list is empty and package_folder is not called.
C5_NonEmptyListPackaged ==
    \A i \in 1..Len(results) :
        LET exp == ExpectedPaths(folders[i])
            calls == PackCallsOf(results[i].folder)
        IN  /\ results[i].success =>
                  /\ results[i].files = exp
                  /\ {o.path : o \in OutputsOf(results[i].folder)}
                         = {exp[j] : j \in 1..Len(exp)}
            /\ (Returned(i) /\ exp # <<>>) =>
                  /\ Cardinality(calls) = 1
                  /\ \A c \in calls : packCalls[c].files = exp
            /\ (Returned(i) /\ exp = <<>>) => calls = {}

\* template1 missing from the flags, template3 disabled: the hero and the
\* grids 2 and 4 were written and packaged in that order
C5_Witness ==
    /\ Len(results) >= 1
    /\ results[1].success
    /\ DOMAIN config.templates = {"template3"}
    /\ ~config.templates["template3"]
    /\ [j \in 1..Len(results[1].files) |-> results[1].files[j].index]
           = <<1, 2, 4>>
    /\ packCalls[1].files = results[1].files

\* C8: process_with_pil is entered only after validate_config succeeded, the
\* scan returned a folder and the start was confirmed; a run that returned
\* False or raised has rendered, packaged and reported nothing; a run
\* started on a missing collection folder returns False from validate_config
\* without scanning; and scan on a missing folder raises with no record.
C8_MissingRootIsFatal ==
    /\ []( /\ "process_with_pil" \in called =>
                 /\ {"validate_config", "scan"} \subseteq called
                 /\ Len(folders) >= 1
                 /\ config.auto_start \/ response = "y"
           /\ runResult \in {"False", "raised"} =>
                 /\ "process_with_pil" \notin called
                 /\ outputs = {}
                 /\ packCalls = <<>>
                 /\ master = <<>>
                 /\ report = <<>> )
    /\ [][ /\ (pc = "start" /\ ~rootExists) =>
                 /\ pc' = "returned"
                 /\ runResult' = "False"
                 /\ "scan" \notin called'
           /\ (pc = "validated" /\ ~rootExists) =>
                 /\ pc' = "raised"
                 /\ runResult' = "raised"
                 /\ folders' = <<>> ]_vars

\* a run on a configured but missing collection folder has returned False
C8_Witness ==
    /\ runResult = "False"
    /\ config.collection_folder = "root"
    /\ ~rootExists
    /\ called = {"validate_config"}

----------------------------------------------------------------------------
(* FolderScanner.scan under the enumeration orders of iterdir (ScanSpec) *)

\* Path.iterdir yields the members of a directory in an order the file
\* system chooses.  A listing is [top, sub]: the order of the collection
\* folder's entries and, for every scanned subfolder, the order of its files.

MaxPlain == 5

MaxShuffle == 3

PNG == <<".", "p", "n", "g">>

\* the i-th plain picture: b.png, c.png, d.png, ...
PlainFile(i) == [stem |-> <<Characters[41 + i]>>, suffix |-> PNG,
                 is_file |-> TRUE]

\* pictures with particular names: c01.JPG, a_s.png, mAIN.png
NamedFiles ==
    {[stem |-> <<"c", "0", "1">>, suffix |-> <<".", "J", "P", "G">>,
      is_file |-> TRUE],
     [stem |-> <<"a", "_", "s">>, suffix |-> PNG, is_file |-> TRUE],
     [stem |-> <<"m", "A", "I", "N">>, suffix |-> PNG, is_file |-> TRUE]}

\* what is not a picture: tab_on.png, n.txt and a directory z.png
NoiseFiles ==
    {[stem |-> <<"t", "a", "b", "_", "o", "n">>, suffix |-> PNG,
      is_file |-> TRUE],
     [stem |-> <<"n">>, suffix |-> <<".", "t", "x", "t">>, is_file |-> TRUE],
     [stem |-> <<"z">>, suffix |-> PNG, is_file |-> FALSE]}

ScanFileSets ==
    {{PlainFile(i) : i \in 1..k} \cup named \cup noise :
        k \in 0..MaxPlain, named \in SUBSET NamedFiles,
        noise \in {{}, NoiseFiles}}

\* a collection folder: subfolder "b" with the files under test, subfolder
\* "a" with one picture, and a hidden directory
ScanTrees ==
    {{[name |-> <<"b">>, is_dir |-> TRUE, files |-> fs],
      [name |-> <<"a">>, is_dir |-> TRUE, files |-> {PlainFile(1)}],
      [name |-> <<".", "h">>, is_dir |-> TRUE, files |-> {PlainFile(1)}]} :
        fs \in ScanFileSets}

ScanMins == {0, 1}

\* every order of the members of S
RECURSIVE Orders(_)
Orders(S) ==
    IF S = {}
    THEN {<<>>}
    ELSE UNION {{<<x>> \o o : o \in Orders(S \ {x})} : x \in S}

Reverse(s) == [i \in 1..Len(s) |-> s[Len(s) + 1 - i]]

\* the orders iterdir is given for the files of a subfolder: every order of
\* a small directory, ascending and descending for a larger one
FileListings(S) ==
    IF Cardinality(S) <= MaxShuffle
    THEN Orders(S)
    ELSE {SortByName(S), Reverse(SortByName(S))}

\* the same for the entries of the collection folder
EntryListings(S) ==
    IF Cardinality(S) <= MaxShuffle
    THEN Orders(S)
    ELSE {SortEntries(S), Reverse(SortEntries(S))}

\* the subfolders scan descends into
Scanned(entries) ==
    {e \in entries : e.is_dir /\ ~StartsWith(e.name, <<".">>)}

Listings(entries) ==
    LET dirs == Scanned(entries)
        names == {e.name : e \in dirs}
        FilesOf(n) == (CHOOSE e \in dirs : e.name = n).files
        all == UNION {FileListings(e.files) : e \in dirs}
    IN  {[top |-> t, sub |-> s] :
            t \in EntryListings(entries),
            s \in {f \in [names -> all] :
                      \A n \in names : f[n] \in FileListings(FilesOf(n))}}

\* one insertion of a stable ascending sort on <<key, value>> pairs
InsertPair(s, p) ==
    LET n == Cardinality({i \in 1..Len(s) : ~StrLess(p[1], s[i][1])})
    IN  SubSeq(s, 1, n) \o <<p>> \o SubSeq(s, n + 1, Len(s))

\* faulty variant of SortPairs: the list keeps the order it came in
SortPairsUnsorted(ps) == ps

\* sorted() and list.sort(key=...) on <<key, value>> pairs
RECURSIVE SortPairs(_)
SortPairs(ps) ==
    IF ps = <<>>
    THEN <<>>
    ELSE InsertPair(SortPairs(SubSeq(ps, 1, Len(ps) - 1)), ps[Len(ps)])

\* the list comprehension of lines 466-471 followed by the sort
ListImages(files) ==
    LET images == SelectSeq(files, IsImage)
        sorted == SortPairs([i \in 1..Len(images) |->
                                <<FileName(images[i]), images[i]>>])
    IN  [i \in 1..Len(sorted) |-> sorted[i][2]]

\* sorted(collection_path.iterdir()) on what iterdir yielded
SortedItems(items) ==
    LET sorted == SortPairs([i \in 1..Len(items) |->
                                <<items[i].name, items[i]>>])
    IN  [i \in 1..Len(sorted) |-> sorted[i][2]]

\* the loop of scan over the sorted entries, each subfolder read in the
\* order sub gives for it
RECURSIVE ScanListedItems(_, _, _)
ScanListedItems(items, sub, min_images) ==
    IF items = <<>>
    THEN <<>>
    ELSE LET item == Head(items)
             info == IF item.is_dir /\ ~StartsWith(item.name, <<".">>)
                     THEN MakeFolderInfo(item, ListImages(sub[item.name]),
                                         min_images)
                     ELSE <<>>
         IN  info \o ScanListedItems(Tail(items), sub, min_images)

\* scan when iterdir enumerates as lst says
ScanListed(lst, min_images) ==
    ScanListedItems(SortedItems(lst.top), lst.sub, min_images)

ScanInit ==
    /\ ToolsIdle
    /\ NameIdle
    /\ GridIdle
    /\ RunIdle
    /\ ColorIdle
    /\ collection \in ScanTrees
    /\ scan_min \in ScanMins
    /\ listing = <<>>
    /\ scans = <<>>
    /\ reordered = FALSE

\* whether a list of names ascends
Ascending(names) ==
    \A i \in 1..(Len(names) - 1) : StrLess(names[i], names[i + 1])

\* what listing keeps of an enumeration: whether the entries came in
\* ascending order, and whether the files of every subfolder did
OrderOf(lst) ==
    [top |-> Ascending([i \in 1..Len(lst.top) |-> lst.top[i].name]),
     sub |-> \A n \in DOMAIN lst.sub :
                Ascending([i \in 1..Len(lst.sub[n]) |->
                              FileName(lst.sub[n][i])])]

\* one call of scan; scans keeps the last two results
ScanCall(lst) ==
    /\ scans' = IF Len(scans) < 2
                THEN Append(scans, ScanListed(lst, scan_min))
                ELSE <<scans[2], ScanListed(lst, scan_min)>>
    /\ listing' = <<OrderOf(lst)>>
    /\ reordered' = (listing # <<>> /\ listing # <<OrderOf(lst)>>)
    /\ UNCHANGED <<toolVars, collection, scan_min, nameVars, gridVars, runVars,
                   colorVars>>

ScanNext == \E lst \in Listings(collection) : ScanCall(lst)

ScanSpec == ScanInit /\ [][ScanNext]_vars

----------------------------------------------------------------------------
(* Claims about the scanner (ScanSpec) *)

\* the FolderInfo records of the scans so far
ScannedInfos ==
    UNION {{scans[k][i] : i \in 1..Len(scans[k])} : k \in 1..Len(scans)}

\* the entry of the collection folder a FolderInfo was made from
EntryOf(f) == CHOOSE e \in collection : e.name = f.name

ImageSet(f) == {f.images[i] : i \in 1..Len(f.images)}

\* the keyword test as C11 words it: "main" or "cover" anywhere in the
\* lower-cased file name, "01" or "1_" at its start
ClaimedKeyword(img) ==
    LET n == Lower(FileName(img))
    IN  \/ ContainsSub(n, <<"m", "a", "i", "n">>)
        \/ ContainsSub(n, <<"c", "o", "v", "e", "r">>)
        \/ StartsWith(n, <<"0", "1">>)
        \/ StartsWith(n, <<"1", "_">>)

\* the keyword test on the lower-cased stem, each keyword anywhere in it
StemKeyword(img) ==
    LET n == Lower(img.stem)
    IN  \/ ContainsSub(n, <<"m", "a", "i", "n">>)
        \/ ContainsSub(n, <<"c", "o", "v", "e", "r">>)
        \/ ContainsSub(n, <<"0", "1">>)
        \/ ContainsSub(n, <<"1", "_">>)

\* C11 (as stated): the main image of every FolderInfo is one of its images:
\* the first of the first five whose name contains "main" or "cover" or
\* starts with "01" or "1_", else the first image; never the sixth or later.
C11_LeadingOrdinalKeywords ==
    \A f \in ScannedInfos :
        LET n == Len(f.images)
            hits == {i \in 1..Min({5, n}) : ClaimedKeyword(f.images[i])}
        IN  /\ \E i \in 1..n : f.main_image = <<f.images[i]>>
            /\ f.main_image = IF hits # {} THEN <<f.images[Min(hits)]>>
                              ELSE <<f.images[1]>>
            /\ \A i \in 6..n : f.main_image # <<f.images[i]>>

\* C11 (amended): a FolderInfo without images has no main image; otherwise
\* the main image is one of the images: the first of the first five whose
\* lower-cased stem contains "main", "cover", "01" or "1_" anywhere, else
\* the first image; never the sixth or later.
C11_KeywordAnywhereInStem ==
    \A f \in ScannedInfos :
        LET n == Len(f.images)
            hits == {i \in 1..Min({5, n}) : StemKeyword(f.images[i])}
        IN  IF n = 0
            THEN f.main_image = <<>>
            ELSE /\ \E i \in 1..n : f.main_image = <<f.images[i]>>
                 /\ f.main_image = IF hits # {} THEN <<f.images[Min(hits)]>>
                                   ELSE <<f.images[1]>>
                 /\ \A i \in 6..n : f.main_image # <<f.images[i]>>

\* a scanned folder whose sixth image carries a keyword and whose first five
\* do not: the first image is the main image
C11_Witness ==
    \E f \in ScannedInfos :
        /\ Len(f.images) >= 6
        /\ StemKeyword(f.images[6])
        /\ \A i \in 1..5 : ~StemKeyword(f.images[i])
        /\ f.main_image = <<f.images[1]>>

\* C12 (as stated): a file of a subfolder is among the images exactly when it
\* is a regular file with a supported extension, compared without case, and
\* a stem free of the four markers; and no file whose name contains one of
\* the markers is among the images.
C12_NoMarkedNameInImages ==
    \A f \in ScannedInfos :
        /\ \A x \in EntryOf(f).files :
               x \in ImageSet(f) <=>
                   /\ x.is_file
                   /\ Lower(x.suffix) \in SUPPORTED_FORMATS
                   /\ \A m \in EXCLUDE_NAMES : ~ContainsSub(x.stem, m)
        /\ \A x \in ImageSet(f) :
               \A m \in EXCLUDE_NAMES : ~ContainsSub(FileName(x), m)

\* C13: in every scan result the folders ascend by name and none is
\* dot-prefixed, the images of every folder ascend by file name, and two
\* scans of the same tree return the same result whatever the enumeration
\* orders were.
C13_ScanIgnoresEnumerationOrder ==
    /\ \A k \in 1..Len(scans) :
           /\ \A i \in 1..(Len(scans[k]) - 1) :
                  StrLess(scans[k][i].name, scans[k][i + 1].name)
           /\ \A i \in 1..Len(scans[k]) :
                  LET f == scans[k][i]
                  IN  /\ ~StartsWith(f.name, <<".">>)
                      /\ \A j \in 1..(Len(f.images) - 1) :
                             StrLess(FileName(f.images[j]),
                                     FileName(f.images[j + 1]))
    /\ Len(scans) = 2 => scans[1] = scans[2]

\* two scans in different orders, the second one enumerating neither the
\* entries nor the files of the subfolders in ascending order, of a tree
\* with two qualifying folders and three or more images in "b"
C13_Witness ==
    /\ Len(scans) = 2
    /\ reordered
    /\ Len(scans[2]) = 2
    /\ Len(scans[2][2].images) >= 3
    /\ ~listing[1].top
    /\ ~listing[1].sub

----------------------------------------------------------------------------
(* ImageProcessor.extract_dominant_color (ColorSpec) *)

\* A picture file is [readable, pixels].  An unreadable file makes
\* Image.open or the decoding raise.  The pixels are RGBA quadruples; the
\* picture is modelled with at most MaxPixels of them, each opaque or fully
\* transparent, where the code reduces every picture to 100 x 100 pixels
\* (a reduction that leaves the colour of a solid picture as it is).

MaxPixels == 4

FALLBACK_COLOR == <<254, 207, 120>>

WHITE == <<255, 255, 255>>

\* the colours of the pictures: white, two colours at most 30 from white,
\* one just beyond, black and two more colours of black's bucket, one
\* colour of another bucket, and a transparent pixel
Palette ==
    {<<255, 255, 255, 255>>, <<250, 250, 250, 255>>, <<225, 255, 255, 255>>,
     <<224, 255, 255, 255>>, <<0, 0, 0, 255>>, <<10, 20, 30, 255>>,
     <<31, 1, 2, 255>>, <<200, 100, 50, 255>>, <<0, 0, 0, 0>>}

RECURSIVE SeqsUpTo(_, _)
SeqsUpTo(S, n) ==
    IF n = 0
    THEN {<<>>}
    ELSE LET shorter == SeqsUpTo(S, n - 1)
         IN  shorter \cup {Append(q, x) : q \in shorter, x \in S}

Pictures ==
    {[readable |-> FALSE, pixels |-> <<>>]} \cup
    {[readable |-> TRUE, pixels |-> ps] :
        ps \in SeqsUpTo(Palette, MaxPixels) \ {<<>>}}

\* convert('RGBA'), alpha_composite on a white background, convert('RGB'),
\* for an opaque or a fully transparent pixel
OnWhite(px) == IF px[4] = 255 THEN <<px[1], px[2], px[3]>> ELSE WHITE

\* the square of dist_to_white
DistSq(c) ==
    (255 - c[1]) * (255 - c[1]) + (255 - c[2]) * (255 - c[2])
        + (255 - c[3]) * (255 - c[3])

\* faulty variant of NotNearWhite: nothing is filtered out
NotNearWhiteNever(c) == TRUE

\* faulty variant of NotNearWhite: a pixel exactly 30 from white is kept
NotNearWhiteInclusive(c) == DistSq(c) >= 900

\* dist_to_white > 30; the square root of 900 is exactly 30.0
NotNearWhite(c) == DistSq(c) > 900

\* the key of the dictionary quantized
Bucket(c) == <<(c[1] \div 32) * 32, (c[2] \div 32) * 32, (c[3] \div 32) * 32>>

\* the count quantized holds for a key
BucketCount(filtered, key) ==
    Cardinality({i \in 1..Len(filtered) : Bucket(filtered[i]) = key})

\* faulty variant of MostCommon: of the keys with the largest count, the one
\* whose count gets there first
MostCommonFirstToReach(filtered) ==
    LET best == Max({BucketCount(filtered, Bucket(filtered[i])) :
                        i \in 1..Len(filtered)})
        reached == Min({i \in 1..Len(filtered) :
                          BucketCount(SubSeq(filtered, 1, i),
                                      Bucket(filtered[i])) = best})
    IN  Bucket(filtered[reached])

\* max(quantized.items(), key=count)[0]: of the keys with the largest
\* count, the one inserted first
MostCommon(filtered) ==
    LET best == Max({BucketCount(filtered, Bucket(filtered[i])) :
                        i \in 1..Len(filtered)})
        first == Min({i \in 1..Len(filtered) :
                         BucketCount(filtered, Bucket(filtered[i])) = best})
    IN  Bucket(filtered[first])

RECURSIVE SumChannel(_, _)
SumChannel(cs, k) ==
    IF cs = <<>> THEN 0 ELSE Head(cs)[k] + SumChannel(Tail(cs), k)

\* the list filtered: the composited pixels that are not near white
Filtered(pixels) ==
    LET rgb == [i \in 1..Len(pixels) |-> OnWhite(pixels[i])]
    IN  SelectSeq(rgb, NotNearWhite)

\* the body of the try block on the decoded pixels: the list filtered, the
\* winning key (none when the list is empty) and the colour returned
DominantOf(pixels) ==
    LET filtered == Filtered(pixels)
    IN  IF filtered = <<>>
        THEN [filtered |-> filtered, most_common |-> <<>>,
              color |-> FALLBACK_COLOR]
        ELSE LET most_common == MostCommon(filtered)
                 matching == SelectSeq(filtered,
                                 LAMBDA c : Bucket(c) = most_common)
             IN  [filtered |-> filtered, most_common |-> <<most_common>>,
                  color |->
                     IF matching # <<>>
                     THEN <<SumChannel(matching, 1) \div Len(matching),
                            SumChannel(matching, 2) \div Len(matching),
                            SumChannel(matching, 3) \div Len(matching)>>
                     ELSE most_common]

\* faulty variant of ExtractDominantColor: no except clause
ExtractDominantColorUncaught(img) ==
    IF img.readable
    THEN [raised |-> FALSE, color |-> DominantOf(img.pixels).color,
          filtered |-> DominantOf(img.pixels).filtered,
          most_common |-> DominantOf(img.pixels).most_common]
    ELSE [raised |-> TRUE, color |-> <<>>, filtered |-> <<>>,
          most_common |-> <<>>]

\* extract_dominant_color: whether it raised, what it returned, and the
\* list filtered and the winning key it computed on the way
ExtractDominantColor(img) ==
    IF img.readable
    THEN [raised |-> FALSE, color |-> DominantOf(img.pixels).color,
          filtered |-> DominantOf(img.pixels).filtered,
          most_common |-> DominantOf(img.pixels).most_common]
    ELSE [raised |-> FALSE, color |-> FALLBACK_COLOR, filtered |-> <<>>,
          most_common |-> <<>>]

ColorInit ==
    /\ ToolsIdle
    /\ NameIdle
    /\ GridIdle
    /\ RunIdle
    /\ ScanIdle
    /\ image \in Pictures
    /\ theme_color = <<>>
    /\ gradient = <<>>

CallExtractDominantColor ==
    /\ theme_color' = <<ExtractDominantColor(image)>>
    /\ UNCHANGED <<toolVars, image, gradient, nameVars, gridVars, runVars, scanVars>>

ColorNext == CallExtractDominantColor

ColorSpec == ColorInit /\ [][ColorNext]_vars

----------------------------------------------------------------------------
(* Claims about the dominant colour (ColorSpec) *)

\* the picture is opaque and of one colour c
Solid(c) ==
    /\ image.readable
    /\ \A i \in 1..Len(image.pixels) : image.pixels[i] = <<c[1], c[2], c[3], 255>>

SolidColors == {<<px[1], px[2], px[3]>> : px \in {q \in Palette : q[4] = 255}}

\* C14 (as stated): a solid opaque picture of a colour other than white
\* gives exactly that colour, an all-white picture gives the fallback.
C14_SolidNonWhiteIsReturned ==
    theme_color # <<>> =>
        \A c \in SolidColors :
            Solid(c) =>
                theme_color[1].color = IF c = WHITE THEN FALLBACK_COLOR ELSE c

\* C14 (amended): a solid opaque picture of a colour farther than 30 from
\* white (Euclidean distance in RGB) gives exactly that colour; a solid
\* picture of white or of a colour at most 30 from white gives the fallback.
C14_SolidBeyondThirtyIsReturned ==
    theme_color # <<>> =>
        \A c \in SolidColors :
            Solid(c) =>
                theme_color[1].color =
                    IF DistSq(c) > 30 * 30 THEN c ELSE FALLBACK_COLOR

\* a solid picture of more than one pixel, its colour 31 from white, has
\* been analysed
C14_Witness ==
    /\ theme_color # <<>>
    /\ Solid(<<224, 255, 255>>)
    /\ Len(image.pixels) > 1
    /\ theme_color[1].color = <<224, 255, 255>>

\* C15: extract_dominant_color does not raise; it returns three integers in
\* 0..255, and the fallback colour when the file cannot be read.
C15_NeverRaises ==
    theme_color # <<>> =>
        /\ ~theme_color[1].raised
        /\ Len(theme_color[1].color) = 3
        /\ \A k \in 1..3 : theme_color[1].color[k] \in 0..255
        /\ ~image.readable => theme_color[1].color = FALLBACK_COLOR

\* the call has returned for a file that cannot be read
C15_Witness ==
    /\ theme_color # <<>>
    /\ ~image.readable
    /\ theme_color[1].color = FALLBACK_COLOR

\* the composited pixels of the picture, in iteration order
Composited == [i \in 1..Len(image.pixels) |-> OnWhite(image.pixels[i])]

\* C21 (as stated): a pixel is left out of the vote exactly when the square
\* of its distance to white is below 900; a pixel exactly 30 from white
\* votes.
C21_DiscardedBelowThirty ==
    (theme_color # <<>> /\ image.readable) =>
        theme_color[1].filtered =
            SelectSeq(Composited, LAMBDA c : ~(DistSq(c) < 900))

\* C21 (amended): a pixel is left out of the vote exactly when the square of
\* its distance to white is at most 900; a pixel exactly 30 from white, such
\* as (225,255,255), is left out, and one 31 from white votes.
C21_DiscardedUpToThirty ==
    (theme_color # <<>> /\ image.readable) =>
        theme_color[1].filtered =
            SelectSeq(Composited, LAMBDA c : ~(DistSq(c) <= 900))

\* a picture of a pixel exactly 30 from white and a pixel 31 from white has
\* been analysed: only the second one voted
C21_Witness ==
    /\ theme_color # <<>>
    /\ image.readable
    /\ image.pixels = <<<<225, 255, 255, 255>>, <<224, 255, 255, 255>>>>
    /\ theme_color[1].filtered = <<<<224, 255, 255>>>>
    /\ theme_color[1].color = <<224, 255, 255>>

\* the 32-wide bucket of a colour, by its lowest corner
BucketOf(c) ==
    <<c[1] - (c[1] % 32), c[2] - (c[2] % 32), c[3] - (c[3] % 32)>>

\* how many of the first n voters lie in bucket q
VotesIn(voters, q, n) ==
    Cardinality({i \in 1..n : BucketOf(voters[i]) = q})

\* the largest count of a bucket
TopCount(voters) ==
    Max({VotesIn(voters, BucketOf(voters[i]), Len(voters)) :
            i \in 1..Len(voters)})

\* the buckets that share the largest count
TopBuckets(voters) ==
    {BucketOf(voters[i]) : i \in
        {j \in 1..Len(voters) :
            VotesIn(voters, BucketOf(voters[j]), Len(voters))
                = TopCount(voters)}}

\* the position at which the count of bucket q gets to n
ReachedAt(voters, q, n) ==
    Min({i \in 1..Len(voters) : VotesIn(voters, q, i) = n})

\* the position of the first voter of bucket q
FirstSeenAt(voters, q) == ReachedAt(voters, q, 1)

\* the colour is the floor average of the voters of bucket q, and lies in
\* the bucket
AverageOfBucket(voters, q, color) ==
    LET members == {i \in 1..Len(voters) : BucketOf(voters[i]) = q}
        Total(k) == SumChannel(SelectSeq(voters,
                                   LAMBDA c : BucketOf(c) = q), k)
    IN  \A k \in 1..3 :
            /\ color[k] * Cardinality(members) <= Total(k)
            /\ Total(k) < (color[k] + 1) * Cardinality(members)
            /\ color[k] \in q[k]..(q[k] + 31)

\* C22 (as stated): of the buckets that share the largest count, the winner
\* is the one whose count gets there first in pixel order; the colour
\* returned is the floor average of the winner's pixels and lies in the
\* winner's range.
C22_FirstToReachMaximumWins ==
    (theme_color # <<>> /\ theme_color[1].filtered # <<>>) =>
        LET voters == theme_color[1].filtered
            winner == theme_color[1].most_common[1]
        IN  /\ winner \in TopBuckets(voters)
            /\ \A q \in TopBuckets(voters) :
                   ReachedAt(voters, winner, TopCount(voters))
                       <= ReachedAt(voters, q, TopCount(voters))
            /\ AverageOfBucket(voters, winner, theme_color[1].color)

\* C22 (amended): of the buckets that share the largest count, the winner is
\* the one whose first pixel comes earliest in pixel order; the colour
\* returned is the floor average of the winner's pixels and lies in the
\* winner's range.
C22_FirstSeenOfMaximumWins ==
    (theme_color # <<>> /\ theme_color[1].filtered # <<>>) =>
        LET voters == theme_color[1].filtered
            winner == theme_color[1].most_common[1]
        IN  /\ winner \in TopBuckets(voters)
            /\ \A q \in TopBuckets(voters) :
                   FirstSeenAt(voters, winner) <= FirstSeenAt(voters, q)
            /\ AverageOfBucket(voters, winner, theme_color[1].color)

\* two buckets tie at two pixels each; the bucket seen first wins although
\* the other one gets to two pixels earlier, and the colour is the floor
\* average of the winner's two pixels
C22_Witness ==
    /\ theme_color # <<>>
    /\ image.readable
    /\ image.pixels = <<<<10, 20, 30, 255>>, <<200, 100, 50, 255>>,
                        <<200, 100, 50, 255>>, <<31, 1, 2, 255>>>>
    /\ theme_color[1].most_common = <<<<0, 0, 0>>>>
    /\ theme_color[1].color = <<20, 10, 16>>

----------------------------------------------------------------------------
(* ImageProcessor.create_gradient_background (GradientSpec) *)

\* Every pixel of a row of the result has the same colour, so the result is
\* modelled by its rows, top to bottom; the width plays no part.

MaxHeight == 4

GradientChannels == {0, 1, 100, 255}

GradientColors ==
    {<<r, g, b>> : r \in GradientChannels, g \in GradientChannels,
                   b \in GradientChannels}

\* faulty variant of FactorTimes: the rows get brighter downwards
FactorTimesBrighter(y, height) == 10 * height + 3 * y

\* factor = 1 - (y / height) * 0.3, as a multiple of 1 / (10 * height)
FactorTimes(y, height) == 10 * height - 3 * y

\* int(c * factor) for a channel value c.  c * factor is a float product:
\* where the exact product is no whole number, int gives its floor; where
\* it is one, rounding may leave the float just below it, so that int gives
\* that number or the one before (row 0, with factor 1.0, is exact).
RowChannel(c, y, height) ==
    LET num == c * FactorTimes(y, height)
        floor == num \div (10 * height)
    IN  IF y > 0 /\ c > 0 /\ num % (10 * height) = 0
        THEN {floor - 1, floor}
        ELSE {floor}

\* the colours draw.line may give row y
RowColors(color, y, height) ==
    {<<r, g, b>> : r \in RowChannel(color[1], y, height),
                   g \in RowChannel(color[2], y, height),
                   b \in RowChannel(color[3], y, height)}

\* the rows y .. height - 1 of the image gradient
RECURSIVE GradientRows(_, _, _)
GradientRows(color, y, height) ==
    IF y >= height
    THEN {<<>>}
    ELSE {<<row>> \o rest : row \in RowColors(color, y, height),
                            rest \in GradientRows(color, y + 1, height)}

\* Image.blend(base, gradient, 0.5) on one channel: base + 0.5 * (g - base)
\* is exact, and the conversion to a byte drops the half
Blend(base, g) == (base + g) \div 2

\* the rows create_gradient_background returns for the rows draw.line drew
Blended(color, drawn) ==
    [y \in 1..Len(drawn) |->
        <<Blend(color[1], drawn[y][1]), Blend(color[2], drawn[y][2]),
          Blend(color[3], drawn[y][3])>>]

GradientInit ==
    /\ ToolsIdle
    /\ NameIdle
    /\ GridIdle
    /\ RunIdle
    /\ ScanIdle
    /\ ColorIdle

\* one call, on any colour and height
CreateGradientBackground(color, height, drawn) ==
    /\ gradient = <<>>
    /\ gradient' = <<[color |-> color, height |-> height,
                      rows |-> Blended(color, drawn)]>>
    /\ UNCHANGED <<toolVars, image, theme_color, nameVars, gridVars, runVars,
                   scanVars>>

GradientNext ==
    \E color \in GradientColors, height \in 1..MaxHeight :
        \E drawn \in GradientRows(color, 0, height) :
            CreateGradientBackground(color, height, drawn)

GradientSpec == GradientInit /\ [][GradientNext]_vars

----------------------------------------------------------------------------
(* Claims about the gradient (GradientSpec) *)

\* C19: no channel increases from one row of the gradient to the next; the
\* top row is at least the bottom row in every channel, and greater when the
\* channel of the colour is positive and the gradient has two rows or more.
C19_GradientDarkensDownwards ==
    gradient # <<>> =>
        LET g == gradient[1]
        IN  \A k \in 1..3 :
                /\ \A y \in 1..(g.height - 1) :
                       g.rows[y][k] >= g.rows[y + 1][k]
                /\ g.rows[1][k] >= g.rows[g.height][k]
                /\ (g.color[k] > 0 /\ g.height >= 2) =>
                       g.rows[1][k] > g.rows[g.height][k]

\* a gradient of three rows or more for a colour with two positive channels
\* and a zero one: the positive channels get darker below the top row
C19_Witness ==
    /\ gradient # <<>>
    /\ gradient[1].height >= 3
    /\ gradient[1].color = <<100, 0, 255>>
    /\ gradient[1].rows[1][1] > gradient[1].rows[2][1]
    /\ gradient[1].rows[2][3] > gradient[1].rows[gradient[1].height][3]

----------------------------------------------------------------------------
(* Claims about undecodable images (LoadSpec) *)

\* what a cell must hold for the image it shows: no raise, the requested
\* size, and the placeholder exactly when the file cannot be decoded
CellFor(cell, img, size) ==
    /\ ~cell.raised
    /\ cell.size = size
    /\ cell.placeholder <=> img \in unreadable

\* C16: whatever files of the folder cannot be decoded, a finished grid
\* template has returned its canvas with all 15 cells pasted, each at its
\* place and showing the image the list assigns to it, as a placeholder of
\* 400 x 320 exactly where the file cannot be decoded; the 3 x 3 grid and the
\* header picture of the hero template likewise.
C16_UndecodableImageIsPlaceholder ==
    /\ (grid # <<>> /\ NumImages >= 1) =>
           LET g == grid[1]
               a == SliceLen(g.start)
           IN  /\ g.returned
               /\ Len(g.pastes) = GRID_SIZE
               /\ Len(g.cells) = GRID_SIZE
               /\ \A k \in 0..(GRID_SIZE - 1) :
                      /\ g.pastes[k + 1].image =
                            IF k < a THEN ImageAt(g.start + k)
                            ELSE ImageAt((k - a) % NumImages)
                      /\ g.pastes[k + 1].x = (k % 3) * 400
                      /\ g.pastes[k + 1].y = (k \div 3) * 320
                      /\ CellFor(g.cells[k + 1], g.pastes[k + 1].image,
                                 <<400, 320>>)
    /\ hero # <<>> =>
           LET h == hero[1]
               shown == IF NumImages > 1
                        THEN Min({NumImages - 1, HERO_SIZE})
                        ELSE NumImages
           IN  /\ h.returned
               /\ Len(h.pastes) = shown
               /\ Len(h.cells) = shown
               /\ \A k \in 1..shown :
                      CellFor(h.cells[k], h.pastes[k].image, <<400, 320>>)
               /\ h.main # <<>> =>
                      CellFor(h.main_img[1], h.main[1], <<400, 400>>)

\* a finished grid whose first cell shows a decoded image and one of whose
\* later cells, not the last, shows the placeholder
C16_Witness ==
    /\ grid # <<>>
    /\ grid[1].returned
    /\ Len(grid[1].cells) = GRID_SIZE
    /\ ~grid[1].cells[1].placeholder
    /\ ~grid[1].cells[GRID_SIZE].placeholder
    /\ \E k \in 2..(GRID_SIZE - 1) : grid[1].cells[k].placeholder

----------------------------------------------------------------------------
(* Claims about the walk-through folder (E2ESpec) *)

AllTemplatesOn == \A i \in 1..4 : Enabled(config.templates, TemplateKeys[i])

\* C17: the folder 03_Happy(mid-dot)Cats with one PNG is found by a scan
\* with min_images = 1, with title "Happy" and subtitle "Cats"; processed
\* with every template enabled it yields exactly four files, one hero and
\* three grids, all in the output folder of its name and all carrying the
\* folder name in their file names.
C17_HappyCatsEndToEnd ==
    /\ ("scan" \in called /\ pc # "raised" /\ config.min_images = 1) =>
           /\ Len(folders) = 1
           /\ folders[1].name = HAPPY_CATS
           /\ folders[1].image_count = 1
           /\ folders[1].title = <<"H", "a", "p", "p", "y">>
           /\ folders[1].subtitle = <<"C", "a", "t", "s">>
    /\ (AllTemplatesOn /\ results # <<>> /\ results[1].success) =>
           /\ Cardinality(outputs) = 4
           /\ Len(results[1].files) = 4
           /\ \A o \in outputs :
                  /\ o.path.dir = HAPPY_CATS
                  /\ ContainsSub(o.file, HAPPY_CATS)
           /\ Cardinality({o \in outputs : ContainsSub(o.file, HERO_LABEL)})
                  = 1
           /\ Cardinality({o \in outputs : ContainsSub(o.file, GRID_LABEL)})
                  = 3
           /\ Cardinality({o.file : o \in outputs}) = 4

\* the folder has been scanned with min_images = 1 and processed with every
\* template enabled
C17_Witness ==
    /\ config.min_images = 1
    /\ AllTemplatesOn
    /\ results # <<>>
    /\ results[1].success
    /\ folders[1].title = <<"H", "a", "p", "p", "y">>
    /\ Cardinality(outputs) = 4

----------------------------------------------------------------------------
(* Claims about the output files and the report (Spec) *)

\* the label of template i in a file name
LabelOf(i) == IF i = 1 THEN HERO_LABEL ELSE GRID_LABEL \o <<DigitChar(i - 1)>>

\* C18: template i of a folder is written into the output folder of the
\* folder's name as <0i>_<label>_<folder name>.jpg, the label being the hero
\* label for i = 1 and the grid label numbered i - 1 otherwise; two written
\* files with the same folder and file name are one and the same write, so
\* the templates of one folder and the files of different folders never
\* share a path.
C18_OutputPathsAreDistinct ==
    /\ \A o \in outputs :
           /\ o.path.index \in 1..4
           /\ \E i \in 1..Len(folders) : folders[i].name = o.path.dir
           /\ o.file = <<"0", DigitChar(o.path.index), "_">>
                           \o LabelOf(o.path.index) \o <<"_">> \o o.path.dir
                           \o <<".", "j", "p", "g">>
    /\ \A o1 \in outputs, o2 \in outputs :
           (o1.path.dir = o2.path.dir /\ o1.file = o2.file) => o1 = o2
    /\ \A o1 \in outputs, o2 \in outputs :
           o1.path.dir # o2.path.dir =>
               <<o1.path.dir, o1.file>> # <<o2.path.dir, o2.file>>

\* two folders, each with its four templates written
C18_Witness ==
    /\ Cardinality(outputs) = 8
    /\ Cardinality({<<o.path.dir, o.file>> : o \in outputs}) = 8
    /\ Cardinality({o.path.dir : o \in outputs}) = 2

\* C20: the saved report counts every scanned folder: total is the number of
\* folders, success and failed add up to it, and it holds one entry per
\* folder in order; whenever process_with_pil has returned the report is
\* saved, also when every folder failed and no package was made.
C20_ReportCoversEveryFolder ==
    /\ report # <<>> =>
           /\ report[1].total = Len(folders)
           /\ report[1].success + report[1].failed = report[1].total
           /\ Len(report[1].results) = Len(folders)
           /\ \A i \in 1..Len(folders) :
                  report[1].results[i].folder = folders[i].name
    /\ ("process_with_pil" \in called /\ pc = "returned") => report # <<>>

\* a finished batch of two folders that both failed: no package, no master
\* package, and the report is saved
C20_Witness ==
    /\ report # <<>>
    /\ report[1].total = 2
    /\ report[1].failed = 2
    /\ all_packages = <<>>
    /\ master = <<>>



----------------------------------------------------------------------------
(* Claims about the geometry and the images of the templates (GridSpec) *)

\* the pasted cells k and j (1-based) share no pixel
Apart(p, j, k) ==
    \/ p[j].x + 400 <= p[k].x
    \/ p[k].x + 400 <= p[j].x
    \/ p[j].y + 320 <= p[k].y
    \/ p[k].y + 320 <= p[j].y

\* how many of the pasted cells have their corner on the canvas
CellsOnCanvas(p) ==
    Cardinality({k \in 1..Len(p) :
                    p[k].x < canvas_size[1] /\ p[k].y < canvas_size[2]})

\* C23: whatever the canvas size, a finished grid template holds cell k
\* (0..14) as a 400x320 box at x = (k mod 3)*400, y = (k div 3)*320; the
\* canvas size decides only how many of the cells land on the canvas.  On
\* the 1200x1600 canvas the 15 cells lie inside the canvas, share no pixel
\* and cover its area, and in the hero template the header is 640 high and
\* the three grid rows below it end at the bottom edge.
C23_GridGeometryIgnoresCanvas ==
    /\ (grid # <<>> /\ NumImages >= 1) =>
          LET p == grid[1].pastes
          IN  /\ Len(p) = 15
              /\ \A k \in 0..14 :
                    /\ p[k + 1].x = (k % 3) * 400
                    /\ p[k + 1].y = (k \div 3) * 320
                    /\ grid[1].cells[k + 1].size = <<400, 320>>
              /\ CellsOnCanvas(p) =
                    Min({3, (canvas_size[1] + 399) \div 400})
                        * Min({5, (canvas_size[2] + 319) \div 320})
              /\ canvas_size = <<1200, 1600>> =>
                    /\ \A k \in 1..15 :
                          /\ p[k].x + 400 <= canvas_size[1]
                          /\ p[k].y + 320 <= canvas_size[2]
                    /\ \A j, k \in 1..15 : j # k => Apart(p, j, k)
                    /\ 15 * 400 * 320 = canvas_size[1] * canvas_size[2]
    /\ (hero # <<>> /\ canvas_size = <<1200, 1600>>) =>
          LET p == hero[1].pastes
          IN  \A k \in 0..(Len(p) - 1) :
                 /\ p[k + 1].y = 640 + (k \div 3) * 320
                 /\ p[k + 1].y + 320 <= canvas_size[2]
                 /\ k \div 3 = 2 => p[k + 1].y + 320 = canvas_size[2]
                 /\ hero[1].cells[k + 1].size = <<400, 320>>

\* a grid has been drawn on the 600x800 canvas, where six of its fifteen
\* cells land on the canvas, and the hero template with all nine slots
\* filled has been drawn too
C23_Witness ==
    /\ grid # <<>>
    /\ hero # <<>>
    /\ NumImages >= 10
    /\ canvas_size = <<600, 800>>
    /\ Len(grid[1].pastes) = 15
    /\ CellsOnCanvas(grid[1].pastes) = 6
    /\ Len(hero[1].pastes) = 9

\* the default canvas, tiled by a finished grid and by a full hero template
C23_DefaultCanvasTiled ==
    /\ grid # <<>>
    /\ hero # <<>>
    /\ canvas_size = <<1200, 1600>>
    /\ Len(hero[1].pastes) = 9
    /\ hero[1].pastes[9].y = 1280

\* C24: no call of generate_template1 or generate_template_grid changes the
\* FolderInfo (images, image_count, title, subtitle, main_image), and a grid
\* template places the same images whatever was rendered before it.
C24_FolderInfoIsImmutable ==
    /\ [][folder' = folder]_vars
    /\ [](\A g, h \in rendered : g.start = h.start => g = h)

\* all three grids of a folder of four images have been rendered
\* (each of them pads by wraparound), the hero template among them
C24_Witness ==
    /\ NumImages = 4
    /\ hero # <<>>
    /\ {g.start : g \in rendered} = {0, 15, 30}
    /\ gpc = "pad"
    /\ Len(grid_images) = 8

\* C25 (as stated): the padding loop of generate_template_grid comes to an
\* end for every FolderInfo the scanner can return, the one with an empty
\* images list included.
C25_PaddingLoopTerminates == (gpc = "pad") ~> (gpc = "idle")

\* the sequences placed by the grid that starts at start, if rendered
PlacedBy(start) == {g.images : g \in {h \in rendered : h.start = start}}

\* C26: for 1 <= n <= 15 the three grids place one and the same sequence of
\* 15 images; for 15 < n <= 30 the grid starting at 30 places what the grid
\* starting at 0 places, images[0:15]; so three pairwise different sequences
\* need n > 30.
C26_GridsCoincideForFewImages ==
    /\ (1 <= NumImages /\ NumImages <= 15) =>
          \A g, h \in rendered : g.images = h.images /\ Len(g.images) = 15
    /\ (15 < NumImages /\ NumImages <= 30) =>
          /\ \A g \in rendered :
                g.start \in {0, 30} => g.images = SubSeq(folder.images, 1, 15)
    /\ (/\ PlacedBy(0) # {} /\ PlacedBy(15) # {} /\ PlacedBy(30) # {}
        /\ PlacedBy(0) # PlacedBy(15)
        /\ PlacedBy(15) # PlacedBy(30)
        /\ PlacedBy(0) # PlacedBy(30)) => NumImages > 30

\* the three grids of a folder of 10 images have been rendered
C26_Witness ==
    /\ NumImages = 10
    /\ {g.start : g \in rendered} = {0, 15, 30}
    /\ \A g \in rendered :
          g.images = <<1, 2, 3, 4, 5, 6, 7, 8, 9, 10, 1, 2, 3, 4, 5>>

\* the three grids of a folder of 31 images differ pairwise
C26_ThreeDifferentGrids ==
    /\ NumImages = 31
    /\ Cardinality(rendered) = 3
    /\ Cardinality({g.images : g \in rendered}) = 3

\* C27 (as stated): in the hero template of a folder of more than one image
\* the image of the header is in none of the grid slots.
C27_MainImageNotInHeroGrid ==
    (hero # <<>> /\ NumImages > 1 /\ hero[1].main # <<>>) =>
        \A k \in 1..Len(hero[1].pastes) :
            hero[1].pastes[k].image # hero[1].main[1]


----------------------------------------------------------------------------
(* server.py: set_collection_folder and set_current_folder (ServerSpec) *)

\* the largest index handed to set_current_folder
MaxIndex == 3

\* The collection folders on disk: one with three subfolders, a hidden
\* directory and a file; one with two subfolders; one with one subfolder;
\* one with a file only; and a path that does not exist.
ServerDir(n) == [name |-> n, is_dir |-> TRUE]

ServerCollections ==
    {[path |-> <<"P">>, exists |-> TRUE,
      entries |-> {ServerDir(<<"c">>), ServerDir(<<"a">>), ServerDir(<<"b">>),
                   ServerDir(<<".", "h">>),
                   [name |-> <<"f", ".", "p", "n", "g">>, is_dir |-> FALSE]}],
     [path |-> <<"Q">>, exists |-> TRUE,
      entries |-> {ServerDir(<<"b">>), ServerDir(<<"a">>)}],
     [path |-> <<"R">>, exists |-> TRUE,
      entries |-> {ServerDir(<<"a">>)}],
     [path |-> <<"S">>, exists |-> TRUE,
      entries |-> {[name |-> <<"f", ".", "p", "n", "g">>, is_dir |-> FALSE]}],
     [path |-> <<"N">>, exists |-> FALSE, entries |-> {}]}

\* the loop of lines 247-253 over the sorted entries
RECURSIVE ServerFolders(_, _)
ServerFolders(coll, items) ==
    IF items = <<>>
    THEN <<>>
    ELSE LET item == Head(items)
             found == IF item.is_dir /\ ~StartsWith(item.name, <<".">>)
                      THEN <<[name |-> item.name,
                              path |-> coll \o <<"/">> \o item.name]>>
                      ELSE <<>>
         IN  found \o ServerFolders(coll, Tail(items))

\* set_collection_folder: the state it leaves and what it returns, or that
\* it raised (iterdir of a folder that does not exist, after all_folders
\* was emptied)
SetCollectionFolder(st, coll) ==
    LET begun == [st EXCEPT !.collection_folder = <<coll.path>>,
                            !.output_dir = <<coll.path \o <<"_output">>>>,
                            !.all_folders = <<>>]
        found == ServerFolders(coll.path, SortEntries(coll.entries))
    IN  IF coll.exists
        THEN [state |-> [begun EXCEPT !.all_folders = found],
              raised |-> FALSE, result |-> found]
        ELSE [state |-> begun, raised |-> TRUE, result |-> <<>>]

\* set_current_folder: the state it leaves and what it returns
SetCurrentFolder(st, i) ==
    IF 0 <= i /\ i < Len(st.all_folders)
    THEN [state |-> [st EXCEPT !.current_index = i,
                               !.current_folder =
                                   <<st.all_folders[i + 1].path>>],
          result |-> TRUE]
    ELSE [state |-> st, result |-> FALSE]

ServerInit ==
    /\ NameIdle
    /\ GridIdle
    /\ RunIdle
    /\ ScanIdle
    /\ ColorIdle
    /\ BatchIdle
    /\ SyncIdle
    /\ ServerIdle

CallSetCollectionFolder(coll) ==
    /\ state' = SetCollectionFolder(state, coll).state
    /\ answer' = <<[op |-> "set_collection_folder", arg |-> coll.path,
                    raised |-> SetCollectionFolder(state, coll).raised,
                    result |-> SetCollectionFolder(state, coll).result]>>
    /\ UNCHANGED <<coreVars, batchVars, syncVars>>

CallSetCurrentFolder(i) ==
    /\ state' = SetCurrentFolder(state, i).state
    /\ answer' = <<[op |-> "set_current_folder", arg |-> i,
                    raised |-> FALSE,
                    result |-> SetCurrentFolder(state, i).result]>>
    /\ UNCHANGED <<coreVars, batchVars, syncVars>>

ServerNext ==
    \/ \E coll \in ServerCollections : CallSetCollectionFolder(coll)
    \/ \E i \in (0 - 1)..MaxIndex : CallSetCurrentFolder(i)

ServerSpec == ServerInit /\ [][ServerNext]_vars

----------------------------------------------------------------------------
(* Claims about the server state (ServerSpec) *)

\* C28 (as stated): after any calls of the two setters, a current_folder that
\* is set is the path of all_folders[current_index], with current_index
\* below len(all_folders); and set_current_folder with an index out of range
\* returns False and leaves current_index and current_folder as they were.
C28_CurrentFolderIsListed ==
    /\ [](state.current_folder # <<>> =>
             /\ state.current_index < Len(state.all_folders)
             /\ state.current_folder[1] =
                    state.all_folders[state.current_index + 1].path)
    /\ [][(/\ answer' # <<>>
           /\ answer'[1].op = "set_current_folder"
           /\ ~(0 <= answer'[1].arg
                  /\ answer'[1].arg < Len(state.all_folders))) =>
              /\ answer'[1].result = FALSE
              /\ state'.current_index = state.current_index
              /\ state'.current_folder = state.current_folder]_vars

\* the part of C28 about a call: right after set_current_folder has returned
\* True the current folder is the listed one, and a call with an index out of
\* range returns False and changes nothing
C28_SetCurrentFolderAlone ==
    [][(answer' # <<>> /\ answer'[1].op = "set_current_folder") =>
          IF 0 <= answer'[1].arg /\ answer'[1].arg < Len(state.all_folders)
          THEN /\ answer'[1].result = TRUE
               /\ state'.current_index = answer'[1].arg
               /\ state'.current_folder =
                      <<state'.all_folders[answer'[1].arg + 1].path>>
          ELSE /\ answer'[1].result = FALSE
               /\ state' = state]_vars


----------------------------------------------------------------------------
(* auto_batch.py and auto_batch_v2.py: process_collection (BatchSpec) *)

\* The two files share the shape of process_collection: the existence test,
\* start_server, set_collection_folder, the test for an empty list,
\* setup_chrome and driver.get, the loop over the folders inside try, the
\* except clauses, the finally clause, the master package, return True.
\* A call that raises, and Ctrl+C during a sleep, are inputs of the steps.

\* the largest number of subfolders of the collection
MaxBatchFolders == 3

\* process_collection leaves by return or by an exception
BatchLeave(how) ==
    /\ bpc' = "done"
    /\ batch_exit' = how

BatchInit ==
    /\ NameIdle
    /\ GridIdle
    /\ RunIdle
    /\ ScanIdle
    /\ ColorIdle
    /\ ServerIdle
    /\ SyncIdle
    /\ bpc = "idle"
    /\ server = "none"
    /\ driver = "none"
    /\ batch_folders \in 0..MaxBatchFolders
    /\ batch_index = 0
    /\ batch_results = <<>>
    /\ batch_exit = "none"

\* the existence test and start_server: the folder is missing (return
\* False), the server cannot be started (start_server raises), or it serves
BatchBegin(outcome) ==
    /\ bpc = "idle"
    /\ CASE outcome = "missing" ->
               /\ BatchLeave("False")
               /\ UNCHANGED server
         [] outcome = "raised" ->
               /\ BatchLeave("raised")
               /\ UNCHANGED server
         [] OTHER ->
               /\ bpc' = "started"
               /\ server' = "serving"
               /\ UNCHANGED batch_exit
    /\ UNCHANGED <<driver, batch_folders, batch_index, batch_results,
                   coreVars, serverVars, syncVars>>

\* time.sleep(1), set_collection_folder and the test of its result
BatchScan(outcome) ==
    /\ bpc = "started"
    /\ IF outcome # "ok"
       THEN BatchLeave("raised")
       ELSE IF batch_folders = 0
            THEN BatchLeave("False")
            ELSE bpc' = "scanned" /\ UNCHANGED batch_exit
    /\ UNCHANGED <<server, driver, batch_folders, batch_index, batch_results,
                   coreVars, serverVars, syncVars>>

\* setup_chrome: webdriver.Chrome raises and no browser runs, or
\* set_window_size raises with the browser running, or the driver is returned
BatchSetupChrome(outcome) ==
    /\ bpc = "scanned"
    /\ CASE outcome = "no_browser" ->
               /\ BatchLeave("raised")
               /\ UNCHANGED driver
         [] outcome = "raised" ->
               /\ BatchLeave("raised")
               /\ driver' = "running"
         [] OTHER ->
               /\ bpc' = "browser"
               /\ driver' = "running"
               /\ UNCHANGED batch_exit
    /\ UNCHANGED <<server, batch_folders, batch_index, batch_results,
                   coreVars, serverVars, syncVars>>

\* driver.get, time.sleep(2) and the statements up to try
BatchOpenPage(outcome) ==
    /\ bpc = "browser"
    /\ IF outcome # "ok"
       THEN BatchLeave("raised")
       ELSE bpc' = "loop" /\ UNCHANGED batch_exit
    /\ UNCHANGED <<server, driver, batch_folders, batch_index, batch_results,
                   coreVars, serverVars, syncVars>>

\* one turn of the loop over the folders: a result is appended, or an
\* exception or Ctrl+C leads into the except clauses and on to finally
BatchFolder(outcome) ==
    /\ bpc = "loop"
    /\ batch_index < batch_folders
    /\ IF outcome \in {"success", "failure"}
       THEN /\ batch_results' =
                   Append(batch_results, [success |-> outcome = "success"])
            /\ batch_index' = batch_index + 1
            /\ UNCHANGED bpc
       ELSE /\ bpc' = "finally"
            /\ UNCHANGED <<batch_index, batch_results>>
    /\ UNCHANGED <<server, driver, batch_folders, batch_exit,
                   coreVars, serverVars, syncVars>>

\* the loop is through
BatchLoopEnd ==
    /\ bpc = "loop"
    /\ batch_index = batch_folders
    /\ bpc' = "finally"
    /\ UNCHANGED <<server, driver, batch_folders, batch_index, batch_results,
                   batch_exit, coreVars, serverVars, syncVars>>

\* the finally clause: driver.quit(), then server.shutdown(); when quit
\* raises, shutdown is not reached
BatchFinally(outcome) ==
    /\ bpc = "finally"
    /\ IF outcome # "ok"
       THEN /\ BatchLeave("raised")
            /\ UNCHANGED <<server, driver>>
       ELSE /\ driver' = "quit"
            /\ server' = "shutdown"
            /\ bpc' = "after"
            /\ UNCHANGED batch_exit
    /\ UNCHANGED <<batch_folders, batch_index, batch_results,
                   coreVars, serverVars, syncVars>>

\* the master package when there are results, and return True
BatchFinish(outcome) ==
    /\ bpc = "after"
    /\ IF outcome # "ok" /\ batch_results # <<>>
       THEN BatchLeave("raised")
       ELSE BatchLeave("True")
    /\ UNCHANGED <<server, driver, batch_folders, batch_index, batch_results,
                   coreVars, serverVars, syncVars>>

BatchNext ==
    \/ \E outcome \in {"missing", "raised", "ok"} : BatchBegin(outcome)
    \/ \E outcome \in {"raised", "interrupt", "ok"} : BatchScan(outcome)
    \/ \E outcome \in {"no_browser", "raised", "ok"} :
          BatchSetupChrome(outcome)
    \/ \E outcome \in {"raised", "interrupt", "ok"} : BatchOpenPage(outcome)
    \/ \E outcome \in {"success", "failure", "raised", "interrupt"} :
          BatchFolder(outcome)
    \/ BatchLoopEnd
    \/ \E outcome \in {"raised", "ok"} : BatchFinally(outcome)
    \/ \E outcome \in {"raised", "ok"} : BatchFinish(outcome)

BatchSpec == BatchInit /\ [][BatchNext]_vars

----------------------------------------------------------------------------
(* Claims about the browser batch driver (BatchSpec) *)

\* C29 (as stated): however process_collection ends after start_server was
\* called, the HTTP server has been shut down and a browser that was started
\* has been quit.
C29_CleanupOnEveryExit ==
    (bpc = "done" /\ server # "none") =>
        /\ server = "shutdown"
        /\ driver # "running"

\* behind the finally clause, the browser is quit and the server shut down
C29_CleanupBehindFinally ==
    bpc = "after" => (server = "shutdown" /\ driver = "quit")


----------------------------------------------------------------------------
(* git-auto-sync.py: GitAutoSync.watch and commit (SyncSpec) *)

\* Time is counted in whole seconds.  A turn of the loop of watch sleeps one
\* second and then polls git status.  A change of a file that arrives during
\* the sleep that begins at second t is stamped t, so that now - last_change
\* is never less than the time that has really passed since the change.

\* the last second of the clock
MaxTime == 6

\* the largest debounce_seconds of the configurations
MaxDebounce == 3

\* commit() on a repository with changes: git add, git commit (auto_push
\* adds a push, whose failure push() swallows)
CommitRecord(at, waited, auto) ==
    [at |-> at, waited |-> waited, quiet |-> at - last_change, auto |-> auto]

SyncInit ==
    /\ NameIdle
    /\ GridIdle
    /\ RunIdle
    /\ ScanIdle
    /\ ColorIdle
    /\ ServerIdle
    /\ BatchIdle
    /\ debounce_seconds \in 0..MaxDebounce
    /\ auto_commit \in BOOLEAN
    /\ now = 0
    /\ has_changes \in BOOLEAN
    /\ last_change = 0
    /\ wpc = "watching"
    /\ last_check = 0
    /\ pending_changes = FALSE
    /\ commits = <<>>

\* a file of the repository is changed while watch sleeps
FileChange ==
    /\ wpc = "watching"
    /\ has_changes' = TRUE
    /\ last_change' = now
    /\ UNCHANGED <<debounce_seconds, auto_commit, now, wpc, last_check,
                   pending_changes, commits, coreVars, serverVars, batchVars>>

\* the changes go away without a commit of watch (reverted, or committed by
\* hand)
ChangesGone ==
    /\ wpc = "watching"
    /\ has_changes
    /\ has_changes' = FALSE
    /\ UNCHANGED <<debounce_seconds, auto_commit, now, last_change, wpc,
                   last_check, pending_changes, commits, coreVars, serverVars,
                   batchVars>>

\* one turn of the loop of watch: time.sleep(1) and the body; git_ok tells
\* whether the git commands of commit() succeed (they raise RuntimeError
\* otherwise, which watch does not catch)
Poll(git_ok) ==
    /\ wpc = "watching"
    /\ now < MaxTime
    /\ now' = now + 1
    /\ IF has_changes
       THEN LET checked == IF pending_changes THEN last_check ELSE now'
                elapsed == now' - checked
            IN  /\ last_check' = checked
                /\ IF elapsed >= debounce_seconds
                   THEN IF auto_commit
                        THEN IF git_ok
                             THEN /\ commits' =
                                        Append(commits,
                                               CommitRecord(now', elapsed,
                                                            TRUE))
                                  /\ has_changes' = FALSE
                                  /\ pending_changes' = FALSE
                                  /\ UNCHANGED wpc
                             ELSE /\ wpc' = "raised"
                                  /\ pending_changes' = TRUE
                                  /\ UNCHANGED <<commits, has_changes>>
                        ELSE /\ pending_changes' = FALSE
                             /\ UNCHANGED <<commits, has_changes, wpc>>
                   ELSE /\ pending_changes' = TRUE
                        /\ UNCHANGED <<commits, has_changes, wpc>>
       ELSE /\ pending_changes' = FALSE
            /\ UNCHANGED <<last_check, commits, has_changes, wpc>>
    /\ UNCHANGED <<debounce_seconds, auto_commit, last_change, coreVars,
                   serverVars, batchVars>>

\* Ctrl+C: the except clause asks whether to commit what is left
Interrupt(yes) ==
    /\ wpc = "watching"
    /\ wpc' = "stopped"
    /\ IF has_changes /\ yes
       THEN /\ commits' = Append(commits, CommitRecord(now, 0, FALSE))
            /\ has_changes' = FALSE
       ELSE UNCHANGED <<commits, has_changes>>
    /\ UNCHANGED <<debounce_seconds, auto_commit, now, last_change,
                   last_check, pending_changes, coreVars, serverVars,
                   batchVars>>

SyncNext ==
    \/ FileChange
    \/ ChangesGone
    \/ \E git_ok \in BOOLEAN : Poll(git_ok)
    \/ \E yes \in BOOLEAN : Interrupt(yes)

SyncSpec == SyncInit /\ [][SyncNext]_vars

----------------------------------------------------------------------------
(* Claims about the debounce of watch (SyncSpec) *)

\* C30 (as stated): an automatic commit is made only when no change has
\* arrived during the debounce_seconds before it, a change that arrives
\* while a commit is pending starting the wait afresh; and a poll that finds
\* no change makes no commit and clears the pending flag.
C30_CommitOnlyAfterQuietPeriod ==
    /\ [](\A k \in 1..Len(commits) :
             commits[k].auto => commits[k].quiet >= debounce_seconds)
    /\ [][(now' # now /\ ~has_changes) =>
              (commits' = commits /\ ~pending_changes')]_vars

\* what watch does keep: an automatic commit comes debounce_seconds or more
\* after the poll that first saw changes, and a poll that finds no change
\* makes no commit and clears the pending flag
C30_CommitAfterFixedDelay ==
    /\ [](\A k \in 1..Len(commits) :
             commits[k].auto => commits[k].waited >= debounce_seconds)
    /\ [][(now' # now /\ ~has_changes) =>
              (commits' = commits /\ ~pending_changes')]_vars

====
